---------------------------- MODULE Spec2Model ----------------------------
(***************************************************************************)
(* django-orderbus: the signed order webhook (orders/views.py,             *)
(* orders/serializers.py, orders/models.py, orders/security.py), the       *)
(* publish step (orders/publishers.py, orders/pubsub_utils.py) and the     *)
(* relay                                                                   *)
(* (orders/management/commands/subscribe_order_created.py,                 *)
(* orders/webhooks.py).                                                    *)
(*                                                                         *)
(* Conventions.  A Python str is a sequence of code points, a bytes value  *)
(* a sequence of 0..255.  An optional value (None or a value) is <<>> for  *)
(* None and <<v>> for the value v.                                         *)
(*                                                                         *)
(* Specifications.                                                         *)
(*   Spec      NumReq concurrent requests against one database (unique     *)
(*             indexes, READ COMMITTED), the secret configured.            *)
(*   SpecAuth  one request under every pair of signature headers and every *)
(*             setting of the secret.                                      *)
(*   SpecSig   the functions of orders/security.py called on their own.    *)
(*   SpecValid one signed request with a payload off in one field.         *)
(*   SpecFault NumReq concurrent requests with database faults and publish *)
(*             timeouts.                                                   *)
(*   SpecRelay the relay's callback on NumMsg messages, with redelivery.   *)
(*   SpecRun   the relay command from handle() on: setup, signal handlers, *)
(*             subscribe, the pull, signals and broker failures.           *)
(*   SpecCallback  the running relay with bounded and unbounded            *)
(*             --max-messages and statements of the callback that raise.   *)
(*   SpecLive  the running relay with a fair broker and an egress endpoint *)
(*             that comes up.                                              *)
(*   SpecPubsub  NumCallers callers of ensure_topic_exists, setup_pubsub   *)
(*             and publish_order_created against one broker;               *)
(*             SpecPubsubLive adds fair callers.                           *)
(*   SpecConflict  requests against two stored orders whose key and order  *)
(*             id point at different orders.                               *)
(*   SpecDuplicate  requests repeating a stored key or order id with other *)
(*             customer, address, items and total.                         *)
(*   SpecSteps requests in which more than one step could decide the       *)
(*             answer: signature, payload, stored orders.                  *)
(***************************************************************************)
EXTENDS Integers, Sequences, FiniteSets, TLC

(***************************************************************************)
(* Bounds of the model.                                                    *)
(***************************************************************************)
NumReq == 2        \* concurrent webhook requests
MaxItems == 2      \* longest items list of a payload
DigestLen == 2     \* bytes of a digest in the model (SHA-256 has 32)
NumMsg == 2        \* messages in the subscription
MaxDeliveries == 2 \* deliveries of one message the model follows
NumCallers == 2    \* concurrent callers of the Pub/Sub helpers
MaxCalls == 3      \* calls the callers make between them

None == <<>>
Some(v) == <<v>>
IsNone(o) == o = <<>>
Val(o) == o[1]
\* Python truthiness of an optional str: None and "" are falsy.
Truthy(o) == o # None /\ Val(o) # <<>>

(***************************************************************************)
(* Strings and encodings.                                                  *)
(***************************************************************************)
RECURSIVE Flatten(_)
Flatten(ss) == IF ss = <<>> THEN <<>> ELSE Head(ss) \o Flatten(Tail(ss))

\* str.encode("utf-8") on code points below 2048.
Utf8Char(cp) == IF cp < 128 THEN <<cp>> ELSE <<192 + (cp \div 64), 128 + (cp % 64)>>
Utf8Encode(s) == Flatten([i \in 1..Len(s) |-> Utf8Char(s[i])])

IsAscii(s) == \A i \in 1..Len(s) : s[i] < 128

\* "0123456789abcdef"
HexAlphabet == <<48, 49, 50, 51, 52, 53, 54, 55, 56, 57, 97, 98, 99, 100, 101, 102>>
\* bytes.hex() / HMAC.hexdigest(): two lowercase hex digits per byte.
HexEncode(bs) == Flatten([i \in 1..Len(bs) |->
                    <<HexAlphabet[(bs[i] \div 16) + 1], HexAlphabet[(bs[i] % 16) + 1]>>])

\* "A".."Z", "a".."z", "0".."9", "+", "/"
B64Char(n) == IF n < 26 THEN 65 + n
              ELSE IF n < 52 THEN 97 + (n - 26)
              ELSE IF n < 62 THEN 48 + (n - 52)
              ELSE IF n = 62 THEN 43 ELSE 47
\* base64.b64encode(bs).decode(): 3 bytes -> 4 characters, "=" padding.
RECURSIVE B64Encode(_)
B64Encode(bs) ==
    IF bs = <<>> THEN <<>>
    ELSE IF Len(bs) = 1 THEN
        <<B64Char(bs[1] \div 4), B64Char((bs[1] % 4) * 16), 61, 61>>
    ELSE IF Len(bs) = 2 THEN
        <<B64Char(bs[1] \div 4), B64Char((bs[1] % 4) * 16 + (bs[2] \div 16)),
          B64Char((bs[2] % 16) * 4), 61>>
    ELSE
        <<B64Char(bs[1] \div 4), B64Char((bs[1] % 4) * 16 + (bs[2] \div 16)),
          B64Char((bs[2] % 16) * 4 + (bs[3] \div 64)), B64Char(bs[3] % 64)>>
        \o B64Encode(SubSeq(bs, 4, Len(bs)))

\* hmac.new(key, msg, hashlib.sha256).digest(): a library primitive, modelled
\* as a keyed digest of DigestLen bytes that reads every byte of key and msg.
RECURSIVE Absorb(_, _)
Absorb(h, bs) == IF bs = <<>> THEN h ELSE Absorb((h * 33 + Head(bs) + 1) % 256, Tail(bs))
HmacSha256(key, msg) ==
    [i \in 1..DigestLen |-> Absorb(Absorb(Absorb(i * 7, key), <<255>>), msg)]

\* A comparison that stops at the end of the shorter second argument.
ComparePrefix(a, b) ==
    IF IsAscii(a) /\ IsAscii(b)
    THEN [raised |-> FALSE, value |-> Len(b) <= Len(a) /\ SubSeq(a, 1, Len(b)) = b]
    ELSE [raised |-> TRUE, value |-> FALSE]

\* hmac.compare_digest(a, b) on two str: TypeError unless both are ASCII.
CompareDigest(a, b) ==
    IF IsAscii(a) /\ IsAscii(b) THEN [raised |-> FALSE, value |-> a = b]
    ELSE [raised |-> TRUE, value |-> FALSE]

(***************************************************************************)
(* State.                                                                  *)
(***************************************************************************)
VARIABLES
    WEBHOOK_SECRET,  \* settings.WEBHOOK_SECRET: None or a str
    orders,          \* committed rows of the Order table
    items,           \* committed rows of the OrderItem table
    req,             \* the webhook requests in flight, one record each
    topic,           \* messages accepted by the order.created topic
    sig,             \* a caller of the verifier functions: its arguments and result
    subscription,    \* the broker's side of the subscription, one record per message
    relay,           \* the subscribe_order_created process and its callbacks
    pubsub           \* the broker's topic and subscription, and the callers of
                     \* orders/pubsub_utils.py and publish_order_created

vars == <<WEBHOOK_SECRET, orders, items, req, topic, sig, subscription, relay, pubsub>>

Req == 1..NumReq

(***************************************************************************)
(* orders/security.py                                                      *)
(***************************************************************************)
\* getattr(settings, "WEBHOOK_SECRET", None) when no secret argument is given.
EffectiveSecret(secret) == IF IsNone(secret) THEN WEBHOOK_SECRET ELSE secret

\* The verifier with the secret encoded one byte per code point (latin-1).
verify_webhook_signature_latin1(request_body, signature_header, secret) ==
    LET s == EffectiveSecret(secret) IN
    IF ~Truthy(s) THEN TRUE
    ELSE IF ~Truthy(signature_header) THEN FALSE
    ELSE LET expected_signature == HexEncode(HmacSha256(Val(s), request_body))
             cmp == CompareDigest(expected_signature, Val(signature_header))
         IN  IF cmp.raised THEN FALSE ELSE cmp.value

verify_webhook_signature(request_body, signature_header, secret) ==
    LET s == EffectiveSecret(secret) IN
    IF ~Truthy(s) THEN TRUE
    ELSE IF ~Truthy(signature_header) THEN FALSE
    ELSE LET expected_signature == HexEncode(HmacSha256(Utf8Encode(Val(s)), request_body))
             cmp == CompareDigest(expected_signature, Val(signature_header))
         IN  IF cmp.raised THEN FALSE ELSE cmp.value

verify_shopify_webhook(request_body, signature_header, secret) ==
    IF ~Truthy(signature_header) THEN FALSE
    ELSE LET s == EffectiveSecret(secret) IN
         IF ~Truthy(s) THEN TRUE
         ELSE LET expected_hmac == B64Encode(HmacSha256(Utf8Encode(Val(s)), request_body))
                  cmp == CompareDigest(expected_hmac, Val(signature_header))
              IN  IF cmp.raised THEN FALSE ELSE cmp.value

\* payload is a str here (the isinstance branch encodes it); secret is a str.
generate_webhook_signature(payload, secret) ==
    HexEncode(HmacSha256(Utf8Encode(secret), Utf8Encode(payload)))

(***************************************************************************)
(* test_webhook_hmac.py: how a sender signs a payload string.              *)
(***************************************************************************)
generate_hmac_signature(payload_str, secret) ==
    HexEncode(HmacSha256(Utf8Encode(secret), Utf8Encode(payload_str)))

generate_shopify_signature(payload_str, secret) ==
    B64Encode(HmacSha256(Utf8Encode(secret), Utf8Encode(payload_str)))

(***************************************************************************)
(* Payloads.  request.data is the parsed JSON body: a record whose fields  *)
(* are optional (None: the key is missing or null).  Money is in cents.    *)
(***************************************************************************)
IsSpace(c) == c \in {32, 9, 10, 13}
RECURSIVE LStrip(_)
LStrip(s) == IF s # <<>> /\ IsSpace(Head(s)) THEN LStrip(Tail(s)) ELSE s
RECURSIVE RStrip(_)
RStrip(s) == IF s # <<>> /\ IsSpace(s[Len(s)]) THEN RStrip(SubSeq(s, 1, Len(s) - 1)) ELSE s
\* rest_framework CharField.to_internal_value: str(data).strip()
Strip(s) == RStrip(LStrip(s))

\* A required CharField: present, not null, not blank once trimmed.
CharFieldOk(o) == o # None /\ Strip(Val(o)) # <<>>

\* OrderItemSerializer: sku, name, quantity (min_value=1), unit_price.
OrderItemValid(it) ==
    /\ CharFieldOk(it.sku)
    /\ CharFieldOk(it.name)
    /\ it.quantity # None /\ Val(it.quantity) >= 1
    /\ it.unit_price # None

validate_customer(value) == value.name # None /\ value.email # None

\* The method accepting any list, the empty one included.
validate_items_any(value) == TRUE

validate_items(value) == value # <<>>

\* serializer.errors: the names of the fields of the payload that fail, each
\* field by its own validators, then by its validate_<field> method.
errors(data) ==
    {f \in {"order_id", "customer", "items", "shipping_address", "total"} :
        \/ f = "order_id" /\ ~CharFieldOk(data.order_id)
        \/ f = "customer" /\ ~(data.customer # None /\ validate_customer(Val(data.customer)))
        \/ f = "items"
           /\ ~(/\ data.items # None
                /\ \A i \in 1..Len(Val(data.items)) : OrderItemValid(Val(data.items)[i])
                /\ validate_items(Val(data.items)))
        \/ f = "shipping_address" /\ ~CharFieldOk(data.shipping_address)
        \/ f = "total" /\ data.total = None}

\* OrderWebhookSerializer.is_valid()
is_valid(data) ==
    /\ CharFieldOk(data.order_id)
    /\ data.customer # None /\ validate_customer(Val(data.customer))
    /\ data.items # None
    /\ \A i \in 1..Len(Val(data.items)) : OrderItemValid(Val(data.items)[i])
    /\ validate_items(Val(data.items))
    /\ CharFieldOk(data.shipping_address)
    /\ data.total # None

\* serializer.validated_data of a valid payload (order_id has source external_ref).
validated_data(data) ==
    [external_ref     |-> Strip(Val(data.order_id)),
     idempotency_key  |-> IF data.idempotency_key = None THEN None
                          ELSE Some(Strip(Val(data.idempotency_key))),
     customer         |-> Val(data.customer),
     items            |-> [i \in 1..Len(Val(data.items)) |->
                             [sku        |-> Strip(Val(Val(data.items)[i].sku)),
                              name       |-> Strip(Val(Val(data.items)[i].name)),
                              quantity   |-> Val(Val(data.items)[i].quantity),
                              unit_price |-> Val(Val(data.items)[i].unit_price)]],
     shipping_address |-> Strip(Val(data.shipping_address)),
     total            |-> Val(data.total)]

(***************************************************************************)
(* The inputs of the model.  Order ids "1", "2" and " 1" (padded);         *)
(* idempotency keys absent, "", "k" and " k" (padded); 0..MaxItems items.  *)
(***************************************************************************)
Id1 == <<49>>
Id2 == <<50>>
Id1Padded == <<32, 49>>
KeyEmpty == <<>>
KeyK == <<107>>
KeyKPadded == <<32, 107>>

CatalogueItem(i) ==
    [sku |-> Some(<<83, 48 + i>>), name |-> Some(<<78, 48 + i>>),
     quantity |-> Some(i), unit_price |-> Some(500 * i)]

RECURSIVE SumLines(_)
SumLines(its) ==
    IF its = <<>> THEN 0
    ELSE Val(Head(its).quantity) * Val(Head(its).unit_price) + SumLines(Tail(its))

MakePayload(oid, key, n) ==
    LET its == [i \in 1..n |-> CatalogueItem(i)] IN
    [order_id         |-> Some(oid),
     idempotency_key  |-> key,
     customer         |-> Some([name |-> Some(<<65>>), email |-> Some(<<97, 64, 120>>)]),
     items            |-> Some(its),
     shipping_address |-> Some(<<97, 100, 100, 114>>),
     total            |-> Some(SumLines(its))]

\* The payloads of Spec: the pairings of order id and key the handler tells
\* apart, one of them with every item count, and one with no items (invalid).
Payloads ==
    {MakePayload(Id1, Some(KeyK), n) : n \in 1..MaxItems}
    \cup {MakePayload(Id1, None, 0), MakePayload(Id1, None, 1),
          MakePayload(Id2, None, 1), MakePayload(Id2, Some(KeyK), 1),
          MakePayload(Id1, Some(KeyEmpty), 1), MakePayload(Id2, Some(KeyEmpty), 1),
          MakePayload(Id1, Some(KeyKPadded), 1), MakePayload(Id1Padded, None, 1)}

\* json.dumps(payload) of the sender, as far as the model's payloads differ:
\* order id, idempotency key and one digit per item, "," between; "~" for a
\* field the payload does not have.
JsonDumps(p) ==
    (IF p.order_id = None THEN <<126>> ELSE Val(p.order_id)) \o <<44>>
    \o (IF p.idempotency_key = None THEN <<126>> ELSE Val(p.idempotency_key)) \o <<44>>
    \o (IF p.items = None THEN <<126>> ELSE [i \in 1..Len(Val(p.items)) |-> 48 + i])

(***************************************************************************)
(* The sender and the headers it may put on a request.                     *)
(***************************************************************************)
SenderSecret == <<115>>                              \* "s"
WrongSignature == <<119, 114, 111, 110, 103>>        \* "wrong"

SignedHex(p) ==
    [signature |-> Some(generate_hmac_signature(JsonDumps(p), SenderSecret)),
     shopify_signature |-> None]
Unsigned == [signature |-> None, shopify_signature |-> None]

Request(p, h) == [data |-> p, headers |-> h, body |-> Utf8Encode(JsonDumps(p))]

\* The requests of Spec: every payload signed by the sender, and one payload
\* with no signature.
Requests ==
    {Request(p, SignedHex(p)) : p \in Payloads}
    \cup {Request(MakePayload(Id1, None, 1), Unsigned)}

(***************************************************************************)
(* orders/models.py: the tables and their queries.                         *)
(***************************************************************************)
\* Order.objects.filter(idempotency_key=k).first()
FirstByIdempotencyKey(k) ==
    LET S == {o \in orders : o.idempotency_key = Some(k)} IN
    IF S = {} THEN None ELSE Some(CHOOSE o \in S : TRUE)

\* Order.objects.filter(external_ref=ref).first()
FirstByExternalRef(ref) ==
    LET S == {o \in orders : o.external_ref = ref} IN
    IF S = {} THEN None ELSE Some(CHOOSE o \in S : TRUE)

\* The table without the unique index on idempotency_key.
UniqueConflictRefOnly(a, b) == a.external_ref = b.external_ref

\* unique=True on external_ref and on idempotency_key (NULLs never collide).
UniqueConflict(a, b) ==
    \/ a.external_ref = b.external_ref
    \/ a.idempotency_key # None /\ a.idempotency_key = b.idempotency_key

(***************************************************************************)
(* orders/views.py: order_webhook, one record per request.                 *)
(***************************************************************************)
NoResponse == [status |-> 0, created |-> None, order_id |-> None]
NoTxn == [order |-> None, items |-> <<>>]
NoHeaders == [signature |-> None, shopify_signature |-> None]

IdleReq ==
    [pc           |-> "idle",
     headers      |-> NoHeaders,
     body         |-> <<>>,
     data         |-> None,         \* request.data
     validated    |-> None,         \* serializer.validated_data once is_valid() passed
     txn          |-> NoTxn,        \* rows written inside the open transaction
     order        |-> None,         \* what serializer.save() returned
     is_new_order |-> FALSE,
     publish      |-> "none",       \* "none", "ok" or "failed"
     seen         |-> {},           \* the requests answered before this one arrived
     errors       |-> {},           \* serializer.errors of the 400 response
     resp         |-> NoResponse]

Respond(status, created, order_id) ==
    [status |-> status, created |-> created, order_id |-> order_id]

\* The check with is_valid starting out True: a request without headers passes.
SignatureCheckDefaultValid(headers, body) ==
    IF Truthy(WEBHOOK_SECRET) THEN
        IF Truthy(headers.shopify_signature)
        THEN verify_shopify_webhook(body, headers.shopify_signature, None)
        ELSE IF Truthy(headers.signature)
        THEN verify_webhook_signature(body, headers.signature, None)
        ELSE TRUE
    ELSE TRUE

\* The check made whether or not a secret is configured.
SignatureCheckWithoutSecretTest(headers, body) ==
    IF Truthy(headers.shopify_signature)
    THEN verify_shopify_webhook(body, headers.shopify_signature, None)
    ELSE IF Truthy(headers.signature)
    THEN verify_webhook_signature(body, headers.signature, None)
    ELSE FALSE

\* Lines 52-77: TRUE when the request may proceed.
SignatureCheck(headers, body) ==
    IF Truthy(WEBHOOK_SECRET) THEN
        IF Truthy(headers.shopify_signature)
        THEN verify_shopify_webhook(body, headers.shopify_signature, None)
        ELSE IF Truthy(headers.signature)
        THEN verify_webhook_signature(body, headers.signature, None)
        ELSE FALSE
    ELSE TRUE

\* The request arrives; requests are numbered in the order they arrive.
Receive(r, Inputs) ==
    /\ req[r].pc = "idle"
    /\ IF r = 1 THEN TRUE ELSE req[r - 1].pc # "idle"
    /\ \E in \in Inputs :
          req' = [req EXCEPT ![r] = [@ EXCEPT !.pc = "verify", !.headers = in.headers,
                                              !.body = in.body, !.data = Some(in.data),
                                              !.seen = {q \in Req : req[q].pc = "done"}]]
    /\ UNCHANGED <<WEBHOOK_SECRET, orders, items, topic, sig, subscription, relay, pubsub>>

\* The view validating the payload before it checks the signature.
VerifyAfterValidation(r) ==
    /\ req[r].pc = "verify"
    /\ req' = [req EXCEPT ![r] =
                 IF ~is_valid(Val(req[r].data))
                 THEN [@ EXCEPT !.pc = "done", !.resp = Respond(400, None, None),
                                !.errors = errors(Val(req[r].data))]
                 ELSE IF SignatureCheck(req[r].headers, req[r].body)
                 THEN [@ EXCEPT !.pc = "validate"]
                 ELSE [@ EXCEPT !.pc = "done", !.resp = Respond(401, None, None)]]
    /\ UNCHANGED <<WEBHOOK_SECRET, orders, items, topic, sig, subscription, relay, pubsub>>

Verify(r) ==
    /\ req[r].pc = "verify"
    /\ req' = [req EXCEPT ![r] =
                 IF SignatureCheck(req[r].headers, req[r].body)
                 THEN [@ EXCEPT !.pc = "validate"]
                 ELSE [@ EXCEPT !.pc = "done", !.resp = Respond(401, None, None)]]
    /\ UNCHANGED <<WEBHOOK_SECRET, orders, items, topic, sig, subscription, relay, pubsub>>

Validate(r) ==
    /\ req[r].pc = "validate"
    /\ req' = [req EXCEPT ![r] =
                 IF is_valid(Val(req[r].data))
                 THEN [@ EXCEPT !.pc = "precheck",
                                !.validated = Some(validated_data(Val(req[r].data)))]
                 ELSE [@ EXCEPT !.pc = "done", !.resp = Respond(400, None, None),
                                !.errors = errors(Val(req[r].data))]]
    /\ UNCHANGED <<WEBHOOK_SECRET, orders, items, topic, sig, subscription, relay, pubsub>>

\* Lines 85-105: the look-up by the raw request.data idempotency_key.
PreCheck(r) ==
    LET idempotency_key == Val(req[r].data).idempotency_key
        existing_order == IF Truthy(idempotency_key)
                          THEN FirstByIdempotencyKey(Val(idempotency_key)) ELSE None
    IN  /\ req[r].pc = "precheck"
        /\ req' = [req EXCEPT ![r] =
                     IF existing_order # None
                     THEN [@ EXCEPT !.pc = "done",
                             !.resp = Respond(200, Some(FALSE),
                                              Some(Val(existing_order).external_ref))]
                     ELSE [@ EXCEPT !.pc = "create"]]
        /\ UNCHANGED <<WEBHOOK_SECRET, orders, items, topic, sig, subscription, relay, pubsub>>

(***************************************************************************)
(* orders/serializers.py: OrderWebhookSerializer.create, run inside the    *)
(* view's transaction.atomic() block, one database statement per step.     *)
(***************************************************************************)
\* Lines 54-61: the second look-up, by the validated idempotency_key.  When it
\* finds a row, save() returns it and the view goes on as after an insert.
ExistingForCreate(v) ==
    IF Truthy(v.idempotency_key) THEN FirstByIdempotencyKey(Val(v.idempotency_key))
    ELSE None

\* serializer.create() writing the validated data over the order it found.
CreateUpdatesExisting(r) ==
    LET v == Val(req[r].validated)
        existing_order == ExistingForCreate(v)
        updated == [Val(existing_order) EXCEPT !.customer_name = Val(v.customer.name),
                                               !.customer_email = Val(v.customer.email),
                                               !.shipping_address = v.shipping_address,
                                               !.total = v.total]
    IN  /\ req[r].pc = "create"
        /\ IF existing_order # None
           THEN /\ orders' = (orders \ {Val(existing_order)}) \cup {updated}
                /\ req' = [req EXCEPT ![r] =
                             [@ EXCEPT !.pc = "publish", !.order = Some(updated),
                                       !.is_new_order = TRUE]]
           ELSE /\ orders' = orders
                /\ req' = [req EXCEPT ![r] = [@ EXCEPT !.pc = "insert_order"]]
        /\ UNCHANGED <<WEBHOOK_SECRET, items, topic, sig, subscription, relay, pubsub>>

Create(r) ==
    LET v == Val(req[r].validated)
        existing_order == ExistingForCreate(v)
    IN  /\ req[r].pc = "create"
        /\ req' = [req EXCEPT ![r] =
                     IF existing_order # None
                     THEN [@ EXCEPT !.pc = "publish", !.order = existing_order,
                                    !.is_new_order = TRUE]
                     ELSE [@ EXCEPT !.pc = "insert_order"]]
        /\ UNCHANGED <<WEBHOOK_SECRET, orders, items, topic, sig, subscription, relay, pubsub>>

\* Lines 63-71: the row Order.objects.create() inserts; id is the primary key,
\* here the number of the inserting request.
OrderRow(r, v) ==
    [id               |-> r,
     external_ref     |-> v.external_ref,
     idempotency_key  |-> v.idempotency_key,
     customer_name    |-> Val(v.customer.name),
     customer_email   |-> Val(v.customer.email),
     shipping_address |-> v.shipping_address,
     total            |-> v.total]

\* Lines 73-75: the k-th OrderItem row of the order.
OrderItemRow(r, v, k) ==
    [order |-> r, n |-> k, sku |-> v.items[k].sku, name |-> v.items[k].name,
     quantity |-> v.items[k].quantity, unit_price |-> v.items[k].unit_price]

\* The unique indexes: the INSERT fails against a committed row.
ViolatesUnique(row) == \E o \in orders : UniqueConflict(row, o)

\* The INSERT waits while another open transaction holds a conflicting row,
\* and is decided once that transaction has ended.
BlockedBy(r, row) ==
    \E q \in Req \ {r} : req[q].txn.order # None /\ UniqueConflict(row, Val(req[q].txn.order))

InsertOrder(r) ==
    LET row == OrderRow(r, Val(req[r].validated)) IN
    /\ req[r].pc = "insert_order"
    /\ ~BlockedBy(r, row)
    /\ req' = [req EXCEPT ![r] =
                 IF ViolatesUnique(row)
                 THEN [@ EXCEPT !.pc = "integrity_error", !.txn = NoTxn]
                 ELSE [@ EXCEPT !.pc = "insert_items", !.txn.order = Some(row)]]
    /\ UNCHANGED <<WEBHOOK_SECRET, orders, items, topic, sig, subscription, relay, pubsub>>

InsertItem(r) ==
    LET v == Val(req[r].validated)
        k == Len(req[r].txn.items) + 1
    IN  /\ req[r].pc = "insert_items"
        /\ k <= Len(v.items)
        /\ req' = [req EXCEPT ![r] =
                     [@ EXCEPT !.txn.items = Append(@, OrderItemRow(r, v, k)),
                               !.pc = IF k = Len(v.items) THEN "commit" ELSE "insert_items"]]
        /\ UNCHANGED <<WEBHOOK_SECRET, orders, items, topic, sig, subscription, relay, pubsub>>

\* The commit with the order's items left out of the transaction.
CommitOrderOnly(r) ==
    /\ req[r].pc = "commit"
    /\ orders' = orders \cup {Val(req[r].txn.order)}
    /\ req' = [req EXCEPT ![r] =
                 [@ EXCEPT !.pc = "publish", !.order = req[r].txn.order,
                           !.txn = NoTxn, !.is_new_order = TRUE]]
    /\ UNCHANGED <<WEBHOOK_SECRET, items, topic, sig, subscription, relay, pubsub>>

\* The publish step entered with the transaction still open.
CommitDeferred(r) ==
    /\ req[r].pc = "commit"
    /\ req' = [req EXCEPT ![r] =
                 [@ EXCEPT !.pc = "publish", !.order = req[r].txn.order,
                           !.is_new_order = TRUE]]
    /\ UNCHANGED <<WEBHOOK_SECRET, orders, items, topic, sig, subscription, relay, pubsub>>

\* Leaving the atomic block commits; line 111 then sets is_new_order.
Commit(r) ==
    /\ req[r].pc = "commit"
    /\ orders' = orders \cup {Val(req[r].txn.order)}
    /\ items' = items \cup {req[r].txn.items[k] : k \in 1..Len(req[r].txn.items)}
    /\ req' = [req EXCEPT ![r] =
                 [@ EXCEPT !.pc = "publish", !.order = req[r].txn.order,
                           !.txn = NoTxn, !.is_new_order = TRUE]]
    /\ UNCHANGED <<WEBHOOK_SECRET, topic, sig, subscription, relay, pubsub>>

\* Lines 114-140: the look-up by the raw request.data order_id.
HandleIntegrityError(r) ==
    LET order_id == Val(req[r].data).order_id
        existing_order == FirstByExternalRef(Val(order_id))
    IN  /\ req[r].pc = "integrity_error"
        /\ req' = [req EXCEPT ![r] =
                     IF existing_order # None
                     THEN [@ EXCEPT !.pc = "done",
                             !.resp = Respond(200, Some(FALSE),
                                              Some(Val(existing_order).external_ref))]
                     ELSE [@ EXCEPT !.pc = "done",
                             !.resp = Respond(409, None, order_id)]]
        /\ UNCHANGED <<WEBHOOK_SECRET, orders, items, topic, sig, subscription, relay, pubsub>>

(***************************************************************************)
(* orders/publishers.py and lines 142-154 of the view.                     *)
(***************************************************************************)
\* publish_order_created: the event built from the order.
OrderCreatedEvent(r, order) ==
    [event |-> "order.created", order_id |-> order.external_ref,
     customer_name |-> order.customer_name, total |-> order.total,
     publisher |-> r]

FinalResponse(q) ==
    Respond(IF q.is_new_order THEN 201 ELSE 200, Some(q.is_new_order),
            Some(Val(q.order).external_ref))

\* The broker accepts the message.
PublishOk(r) ==
    /\ req[r].pc = "publish"
    /\ req[r].is_new_order
    /\ topic' = Append(topic, OrderCreatedEvent(r, Val(req[r].order)))
    /\ req' = [req EXCEPT ![r] =
                 [@ EXCEPT !.pc = "done", !.publish = "ok", !.resp = FinalResponse(req[r])]]
    /\ UNCHANGED <<WEBHOOK_SECRET, orders, items, sig, subscription, relay, pubsub>>

\* A publish failure that undoes the order and fails the request.
PublishFailRollsBack(r) ==
    /\ req[r].pc = "publish"
    /\ req[r].is_new_order
    /\ orders' = {o \in orders : o # Val(req[r].order)}
    /\ items' = {it \in items : it.order # Val(req[r].order).id}
    /\ req' = [req EXCEPT ![r] =
                 [@ EXCEPT !.pc = "done", !.publish = "failed",
                           !.resp = Respond(500, None, None)]]
    /\ UNCHANGED <<WEBHOOK_SECRET, topic, sig, subscription, relay, pubsub>>

\* publish_order_created raises; the view logs and goes on.
PublishFail(r) ==
    /\ req[r].pc = "publish"
    /\ req[r].is_new_order
    /\ req' = [req EXCEPT ![r] =
                 [@ EXCEPT !.pc = "done", !.publish = "failed", !.resp = FinalResponse(req[r])]]
    /\ UNCHANGED <<WEBHOOK_SECRET, orders, items, topic, sig, subscription, relay, pubsub>>

SigIdle == [phase |-> "off"]

\* The relay is a process of its own; while it is not running the subscription
\* holds nothing and no callback exists.
Msg == 1..NumMsg
NoMessage == [data |-> <<>>, status |-> "none", deliveries |-> 0]
NoMessages == [m \in Msg |-> NoMessage]
\* A caller of ensure_topic_exists, setup_pubsub or publish_order_created:
\* the function it is in, its position, what the call returned or that it
\* raised, whether the broker failed it (fault),
\* whether it handed a message to the publisher client, what became of that
\* message (fate), and the message id the broker gave it.
Caller == 1..NumCallers
IdleCall == [op |-> "", pc |-> "idle", ret |-> None, raised |-> FALSE,
             fault |-> FALSE, published |-> FALSE, fate |-> "", id |-> 0]
\* No topic, no subscription, no message, nobody calling.
PubsubOff == [topics |-> 0, subscriptions |-> 0, messages |-> 0, calls |-> 0,
              call |-> [c \in Caller |-> IdleCall]]

\* One callback invocation: its position, its locals, and what it has done
\* to the message of this delivery.
IdleCallback == [pc |-> "idle", event_data |-> None, success |-> FALSE, read |-> 0,
                 acks |-> 0, nacks |-> 0, posts |-> 0, outcome |-> "", raised |-> FALSE]
\* The command object before handle(): phase is the position of the main
\* thread, pull the streaming pull, future self.streaming_pull_future,
\* handlers whether _signal_handler is installed, stopped_by what ended
\* the process.
RelayOff == [phase |-> "off", max_messages |-> None, message_count |-> 0,
             callback |-> [m \in Msg |-> IdleCallback],
             pull |-> "none", future |-> FALSE, handlers |-> FALSE,
             exit_code |-> None, stopped_by |-> ""]

Init ==
    /\ WEBHOOK_SECRET = Some(SenderSecret)
    /\ orders = {}
    /\ items = {}
    /\ req = [r \in Req |-> IdleReq]
    /\ topic = <<>>
    /\ sig = SigIdle
    /\ subscription = NoMessages
    /\ relay = RelayOff
    /\ pubsub = PubsubOff

Next ==
    \E r \in Req :
        \/ Receive(r, Requests)
        \/ Verify(r)
        \/ Validate(r)
        \/ PreCheck(r)
        \/ Create(r)
        \/ InsertOrder(r)
        \/ InsertItem(r)
        \/ Commit(r)
        \/ HandleIntegrityError(r)
        \/ PublishOk(r)
        \/ PublishFail(r)

Spec == Init /\ [][Next]_vars

(***************************************************************************)
(* SpecAuth: one request, every combination of the two signature headers   *)
(* and every setting of the secret.                                        *)
(***************************************************************************)
OtherSecret == <<116>>   \* "t"
ConfigSecrets == {None, Some(<<>>), Some(SenderSecret), Some(OtherSecret)}

HeaderValues(p) ==
    {None, Some(<<>>), Some(WrongSignature),
     Some(generate_hmac_signature(JsonDumps(p), SenderSecret)),
     Some(generate_shopify_signature(JsonDumps(p), SenderSecret))}

\* A valid and an invalid payload under every pair of header values.
AuthRequests ==
    UNION {{Request(p, [signature |-> a, shopify_signature |-> b]) :
               a \in HeaderValues(p), b \in HeaderValues(p)} :
           p \in {MakePayload(Id1, Some(KeyK), 0), MakePayload(Id1, Some(KeyK), 1)}}

InitAuth ==
    /\ WEBHOOK_SECRET \in ConfigSecrets
    /\ orders = {}
    /\ items = {}
    /\ req = [r \in Req |-> IdleReq]
    /\ topic = <<>>
    /\ sig = SigIdle
    /\ subscription = NoMessages
    /\ relay = RelayOff
    /\ pubsub = PubsubOff

NextAuth ==
    \/ Receive(1, AuthRequests)
    \/ Verify(1)
    \/ Validate(1)
    \/ PreCheck(1)
    \/ Create(1)
    \/ InsertOrder(1)
    \/ InsertItem(1)
    \/ Commit(1)
    \/ PublishOk(1)
    \/ PublishFail(1)

SpecAuth == InitAuth /\ [][NextAuth]_vars

(***************************************************************************)
(* SpecSig: a sender signs a payload string, the message may be altered on *)
(* the way, and one of the two verifiers is called on what arrives.        *)
(***************************************************************************)
SigPayloads == {<<>>, <<97>>, <<97, 233>>}            \* "", "a", "aé"
SigKeys == {SenderSecret, OtherSecret, <<115, 233>>}  \* "s", "t", "sé"
SecretArgs == {None, Some(<<>>), Some(SenderSecret), Some(<<115, 233>>)}

\* str.upper() on hex digits.
UpperHex(s) == [i \in 1..Len(s) |-> IF s[i] >= 97 THEN s[i] - 32 ELSE s[i]]

\* What an altered header may read: empty, a fixed wrong string, the signature
\* in upper case, the signature less its last character, a non-ASCII string.
Altered(h) ==
    {Some(<<>>), Some(WrongSignature), Some(<<233>>)}
    \cup (IF Truthy(h) THEN {Some(UpperHex(Val(h))), Some(SubSeq(Val(h), 1, Len(Val(h)) - 1))}
          ELSE {})

InitSig ==
    /\ WEBHOOK_SECRET \in ConfigSecrets
    /\ orders = {}
    /\ items = {}
    /\ req = [r \in Req |-> IdleReq]
    /\ topic = <<>>
    /\ subscription = NoMessages
    /\ relay = RelayOff
    /\ pubsub = PubsubOff
    /\ \E s \in SigPayloads, k \in SigKeys, a \in SecretArgs :
          sig = [phase |-> "compose", payload_str |-> s, key |-> k,
                 request_body |-> Utf8Encode(s), signature_header |-> None,
                 signed |-> "no", altered |-> FALSE,
                 secret |-> a, fn |-> "none", ret |-> FALSE]

SignHex ==
    /\ sig.phase = "compose"
    /\ sig' = [sig EXCEPT !.phase = "signed", !.signed = "hex",
                 !.signature_header = Some(generate_webhook_signature(sig.payload_str, sig.key))]
    /\ UNCHANGED <<WEBHOOK_SECRET, orders, items, req, topic, subscription, relay, pubsub>>

SignShopify ==
    /\ sig.phase = "compose"
    /\ sig' = [sig EXCEPT !.phase = "signed", !.signed = "base64",
                 !.signature_header = Some(generate_shopify_signature(sig.payload_str, sig.key))]
    /\ UNCHANGED <<WEBHOOK_SECRET, orders, items, req, topic, subscription, relay, pubsub>>

AlterHeader ==
    /\ sig.phase \in {"compose", "signed"}
    /\ \E h \in Altered(sig.signature_header) \ {sig.signature_header} :
          sig' = [sig EXCEPT !.phase = "altered", !.altered = TRUE, !.signature_header = h]
    /\ UNCHANGED <<WEBHOOK_SECRET, orders, items, req, topic, subscription, relay, pubsub>>

AlterBody ==
    /\ sig.phase = "signed"
    /\ sig' = [sig EXCEPT !.phase = "altered", !.altered = TRUE,
                 !.request_body = Append(sig.request_body, 33)]
    /\ UNCHANGED <<WEBHOOK_SECRET, orders, items, req, topic, subscription, relay, pubsub>>

CallVerifyWebhookSignature ==
    /\ sig.phase \in {"compose", "signed", "altered"}
    /\ sig' = [sig EXCEPT !.phase = "returned", !.fn = "verify_webhook_signature",
                 !.ret = verify_webhook_signature(sig.request_body, sig.signature_header,
                                                  sig.secret)]
    /\ UNCHANGED <<WEBHOOK_SECRET, orders, items, req, topic, subscription, relay, pubsub>>

CallVerifyShopifyWebhook ==
    /\ sig.phase \in {"compose", "signed", "altered"}
    /\ sig' = [sig EXCEPT !.phase = "returned", !.fn = "verify_shopify_webhook",
                 !.ret = verify_shopify_webhook(sig.request_body, sig.signature_header,
                                                sig.secret)]
    /\ UNCHANGED <<WEBHOOK_SECRET, orders, items, req, topic, subscription, relay, pubsub>>

NextSig ==
    \/ SignHex
    \/ SignShopify
    \/ AlterHeader
    \/ AlterBody
    \/ CallVerifyWebhookSignature
    \/ CallVerifyShopifyWebhook

SpecSig == InitSig /\ [][NextSig]_vars

(***************************************************************************)
(* SpecValid: one correctly signed request whose payload is well formed or *)
(* off in one field: a field missing or blank, an empty items list, a      *)
(* quantity below 1, a negative price or total.                            *)
(***************************************************************************)
BasePayload == MakePayload(Id1, None, 1)
Blank == <<32>>          \* " "
EmptyStr == <<>>         \* ""

\* The payload with the first item's field f set to x.
WithItem(p, f, x) ==
    [p EXCEPT !.items = Some([Val(p.items) EXCEPT ![1] = [@ EXCEPT ![f] = x]])]
\* The payload with the customer's field f set to x.
WithCustomer(p, f, x) == [p EXCEPT !.customer = Some([Val(p.customer) EXCEPT ![f] = x])]

ValidationPayloads ==
    {MakePayload(Id1, None, n) : n \in 0..MaxItems}
    \cup {MakePayload(Id1, Some(KeyK), 1)}
    \cup {[BasePayload EXCEPT !.items = None],
          [BasePayload EXCEPT !.customer = None],
          [BasePayload EXCEPT !.order_id = None],
          [BasePayload EXCEPT !.order_id = Some(Blank)],
          [BasePayload EXCEPT !.shipping_address = None],
          [BasePayload EXCEPT !.shipping_address = Some(EmptyStr)],
          [BasePayload EXCEPT !.total = None],
          [BasePayload EXCEPT !.total = Some(0)],
          [BasePayload EXCEPT !.total = Some(-500)]}
    \cup {WithItem(BasePayload, "quantity", q) : q \in {None, Some(0), Some(-1)}}
    \cup {WithItem(MakePayload(Id1, None, MaxItems), "quantity", Some(0))}
    \cup {WithItem(BasePayload, "unit_price", u) : u \in {None, Some(0), Some(-500)}}
    \cup {WithItem(BasePayload, "sku", Some(Blank))}
    \cup {WithCustomer(BasePayload, f, x) :
             f \in {"name", "email"}, x \in {None, Some(EmptyStr)}}

ValidationRequests == {Request(p, SignedHex(p)) : p \in ValidationPayloads}

NextValid ==
    \/ Receive(1, ValidationRequests)
    \/ Verify(1)
    \/ Validate(1)
    \/ PreCheck(1)
    \/ Create(1)
    \/ InsertOrder(1)
    \/ InsertItem(1)
    \/ Commit(1)
    \/ PublishOk(1)
    \/ PublishFail(1)

SpecValid == Init /\ [][NextValid]_vars

(***************************************************************************)
(* SpecFault: NumReq concurrent requests with the failures around them: a  *)
(* database statement that raises something other than IntegrityError, and *)
(* a publish whose acknowledgement does not arrive within the timeout.     *)
(***************************************************************************)
\* future.result(timeout=2.0) raises although the client has handed the
\* message to the broker: the view sees a failure, the topic has the event.
PublishTimeout(r) ==
    /\ req[r].pc = "publish"
    /\ req[r].is_new_order
    /\ topic' = Append(topic, OrderCreatedEvent(r, Val(req[r].order)))
    /\ req' = [req EXCEPT ![r] =
                 [@ EXCEPT !.pc = "done", !.publish = "failed", !.resp = FinalResponse(req[r])]]
    /\ UNCHANGED <<WEBHOOK_SECRET, orders, items, sig, subscription, relay, pubsub>>

\* The statements of the view that talk to the database, by position.
DbSteps == {"precheck", "create", "insert_order", "insert_items", "commit", "integrity_error"}

\* A fault that leaves the rows of the open transaction in the tables.
DbFaultKeepsRows(r) ==
    /\ req[r].pc \in DbSteps
    /\ orders' = orders \cup (IF req[r].txn.order = None THEN {} ELSE {Val(req[r].txn.order)})
    /\ items' = items \cup {req[r].txn.items[k] : k \in 1..Len(req[r].txn.items)}
    /\ req' = [req EXCEPT ![r] =
                 [@ EXCEPT !.pc = "done", !.txn = NoTxn, !.resp = Respond(500, None, None)]]
    /\ UNCHANGED <<WEBHOOK_SECRET, topic, sig, subscription, relay, pubsub>>

\* A database statement raises an error other than IntegrityError: the atomic
\* block, if open, rolls back, and lines 156-160 answer 500.
DbFault(r) ==
    /\ req[r].pc \in DbSteps
    /\ req' = [req EXCEPT ![r] =
                 [@ EXCEPT !.pc = "done", !.txn = NoTxn, !.resp = Respond(500, None, None)]]
    /\ UNCHANGED <<WEBHOOK_SECRET, orders, items, topic, sig, subscription, relay, pubsub>>

\* Duplicates by key and by order id, a key shared by two order ids, every
\* item count, and a payload that fails validation.
FaultPayloads ==
    {MakePayload(Id1, Some(KeyK), n) : n \in 1..MaxItems}
    \cup {MakePayload(Id1, None, 0), MakePayload(Id1, None, 1),
          MakePayload(Id2, Some(KeyK), 1), MakePayload(Id1Padded, None, 1)}

FaultRequests ==
    {Request(p, SignedHex(p)) : p \in FaultPayloads}
    \cup {Request(MakePayload(Id1, None, 1), Unsigned)}

NextFault ==
    \E r \in Req :
        \/ Receive(r, FaultRequests)
        \/ Verify(r)
        \/ Validate(r)
        \/ PreCheck(r)
        \/ Create(r)
        \/ InsertOrder(r)
        \/ InsertItem(r)
        \/ Commit(r)
        \/ HandleIntegrityError(r)
        \/ PublishOk(r)
        \/ PublishFail(r)
        \/ PublishTimeout(r)
        \/ DbFault(r)

SpecFault == Init /\ [][NextFault]_vars

(***************************************************************************)
(* JSON as the publisher writes it and the relay reads it.  A value is a   *)
(* record [t, v]: t is "str", "int", "list" or "dict"; a dict is the       *)
(* sequence of its <<key, value>> pairs in insertion order.  Strings have  *)
(* no escapes and numbers are non-negative integers.                       *)
(***************************************************************************)
JStr(s) == [t |-> "str", v |-> s]
JInt(n) == [t |-> "int", v |-> n]
JList(vs) == [t |-> "list", v |-> vs]
JDict(kvs) == [t |-> "dict", v |-> kvs]

\* str(n) of a natural number.
RECURSIVE Digits(_)
Digits(n) == IF n < 10 THEN <<48 + n>> ELSE Digits(n \div 10) \o <<48 + (n % 10)>>

\* ", ".join(parts)
RECURSIVE JoinComma(_)
JoinComma(parts) ==
    IF parts = <<>> THEN <<>>
    ELSE IF Len(parts) = 1 THEN parts[1]
    ELSE parts[1] \o <<44, 32>> \o JoinComma(Tail(parts))

\* json.dumps(value) with the default separators ", " and ": ".
RECURSIVE json_dumps(_)
json_dumps(x) ==
    IF x.t = "str" THEN <<34>> \o x.v \o <<34>>
    ELSE IF x.t = "int" THEN Digits(x.v)
    ELSE IF x.t = "list" THEN
        <<91>> \o JoinComma([i \in 1..Len(x.v) |-> json_dumps(x.v[i])]) \o <<93>>
    ELSE
        <<123>>
        \o JoinComma([i \in 1..Len(x.v) |->
                         <<34>> \o x.v[i][1] \o <<34, 58, 32>> \o json_dumps(x.v[i][2])])
        \o <<125>>

\* bytes.decode("utf-8") on one- and two-byte sequences: ok is FALSE where
\* Python raises UnicodeDecodeError.  A byte is ASCII, the lead byte of a
\* two-byte sequence followed by its continuation byte, or that continuation.
IsLead(b) == b \in 194..223
IsCont(b) == b \in 128..191
Utf8Decode(bs) ==
    LET wellFormed ==
            \A i \in 1..Len(bs) :
                \/ bs[i] < 128
                \/ IsLead(bs[i]) /\ i < Len(bs) /\ IsCont(bs[i + 1])
                \/ IsCont(bs[i]) /\ i > 1 /\ IsLead(bs[i - 1])
        starts == SelectSeq([i \in 1..Len(bs) |-> i], LAMBDA i : ~IsCont(bs[i]))
    IN  IF wellFormed
        THEN [ok |-> TRUE,
              str |-> [k \in 1..Len(starts) |->
                         IF bs[starts[k]] < 128 THEN bs[starts[k]]
                         ELSE (bs[starts[k]] - 192) * 64 + (bs[starts[k] + 1] - 128)]]
        ELSE [ok |-> FALSE, str |-> <<>>]

\* The scanner: the first position at or after i that holds no whitespace.
RECURSIVE SkipWs(_, _)
SkipWs(s, i) == IF i <= Len(s) /\ IsSpace(s[i]) THEN SkipWs(s, i + 1) ELSE i

JsonFail == [ok |-> FALSE, next |-> 0, val |-> JInt(0)]
JsonOk(next, val) == [ok |-> TRUE, next |-> next, val |-> val]

\* A string starting at the quote s[i].
JsonString(s, i) ==
    LET ends == {j \in (i + 1)..Len(s) : s[j] = 34} IN
    IF ends = {} THEN JsonFail
    ELSE LET j == CHOOSE j \in ends : \A k \in ends : j <= k
         IN  JsonOk(j + 1, JStr(SubSeq(s, i + 1, j - 1)))

IsDigit(c) == c \in 48..57
RECURSIVE DigitsEnd(_, _)
DigitsEnd(s, i) == IF i <= Len(s) /\ IsDigit(s[i]) THEN DigitsEnd(s, i + 1) ELSE i
RECURSIVE IntOf(_)
IntOf(ds) == IF ds = <<>> THEN 0 ELSE IntOf(SubSeq(ds, 1, Len(ds) - 1)) * 10 + (ds[Len(ds)] - 48)

\* A number starting at the digit s[i]; a leading zero stands alone.
JsonNumber(s, i) ==
    LET j == IF s[i] = 48 THEN i + 1 ELSE DigitsEnd(s, i)
    IN  JsonOk(j, JInt(IntOf(SubSeq(s, i, j - 1))))

RECURSIVE JsonValue(_, _)
RECURSIVE JsonMembers(_, _, _)
RECURSIVE JsonElements(_, _, _)

\* The members of an object from position i (a key is expected) on.
JsonMembers(s, i, acc) ==
    IF i > Len(s) \/ s[i] # 34 THEN JsonFail
    ELSE LET k == JsonString(s, i) IN
         IF ~k.ok THEN JsonFail
         ELSE LET c == SkipWs(s, k.next) IN
              IF c > Len(s) \/ s[c] # 58 THEN JsonFail
              ELSE LET x == JsonValue(s, c + 1) IN
                   IF ~x.ok THEN JsonFail
                   ELSE LET d == SkipWs(s, x.next)
                            kvs == Append(acc, <<k.val.v, x.val>>)
                        IN  IF d > Len(s) THEN JsonFail
                            ELSE IF s[d] = 125 THEN JsonOk(d + 1, JDict(kvs))
                            ELSE IF s[d] = 44 THEN JsonMembers(s, SkipWs(s, d + 1), kvs)
                            ELSE JsonFail

\* The elements of an array from position i on.
JsonElements(s, i, acc) ==
    LET x == JsonValue(s, i) IN
    IF ~x.ok THEN JsonFail
    ELSE LET d == SkipWs(s, x.next)
             xs == Append(acc, x.val)
         IN  IF d > Len(s) THEN JsonFail
             ELSE IF s[d] = 93 THEN JsonOk(d + 1, JList(xs))
             ELSE IF s[d] = 44 THEN JsonElements(s, d + 1, xs)
             ELSE JsonFail

JsonValue(s, i0) ==
    LET i == SkipWs(s, i0) IN
    IF i > Len(s) THEN JsonFail
    ELSE IF s[i] = 123 THEN
        LET j == SkipWs(s, i + 1) IN
        IF j <= Len(s) /\ s[j] = 125 THEN JsonOk(j + 1, JDict(<<>>))
        ELSE JsonMembers(s, j, <<>>)
    ELSE IF s[i] = 91 THEN
        LET j == SkipWs(s, i + 1) IN
        IF j <= Len(s) /\ s[j] = 93 THEN JsonOk(j + 1, JList(<<>>))
        ELSE JsonElements(s, j, <<>>)
    ELSE IF s[i] = 34 THEN JsonString(s, i)
    ELSE IF IsDigit(s[i]) THEN JsonNumber(s, i)
    ELSE JsonFail

\* json.loads(s): ok is FALSE where Python raises JSONDecodeError (no value,
\* a syntax error, or extra data after the value).
json_loads(s) ==
    LET x == JsonValue(s, 1) IN
    IF x.ok /\ SkipWs(s, x.next) > Len(s) THEN [ok |-> TRUE, val |-> x.val]
    ELSE [ok |-> FALSE, val |-> JInt(0)]

(***************************************************************************)
(* orders/publishers.py: the message body of an order.created event.       *)
(***************************************************************************)
StrEvent == <<101, 118, 101, 110, 116>>                                        \* "event"
StrOrderCreated == <<111, 114, 100, 101, 114, 46, 99, 114, 101, 97, 116, 101, 100>>
StrOrderId == <<111, 114, 100, 101, 114, 95, 105, 100>>                        \* "order_id"
StrCustomerName == <<99, 117, 115, 116, 111, 109, 101, 114, 95, 110, 97, 109, 101>>
StrTotal == <<116, 111, 116, 97, 108>>                                         \* "total"
StrCreatedAt == <<99, 114, 101, 97, 116, 101, 100, 95, 97, 116>>               \* "created_at"

\* str(order.total) of a non-negative amount held in cents: two decimal places.
DecimalStr(cents) ==
    Digits(cents \div 100) \o <<46, 48 + ((cents % 100) \div 10), 48 + (cents % 10)>>

\* Lines 24-30; created_at is written as the number of the insert.
event_data(order) ==
    JDict(<<<<StrEvent, JStr(StrOrderCreated)>>,
            <<StrOrderId, JStr(order.external_ref)>>,
            <<StrCustomerName, JStr(order.customer_name)>>,
            <<StrTotal, JStr(DecimalStr(order.total))>>,
            <<StrCreatedAt, JStr(Digits(order.id))>>>>)

\* Line 42: json.dumps(event_data).encode("utf-8")
message_data(order) == Utf8Encode(json_dumps(event_data(order)))

(***************************************************************************)
(* SpecRelay: orders/management/commands/subscribe_order_created.py and    *)
(* orders/webhooks.py.  The subscription holds NumMsg messages; the broker *)
(* delivers each unacknowledged message to a callback, callbacks of        *)
(* different messages run side by side, and a nacked message is delivered  *)
(* again.                                                                  *)
(***************************************************************************)
\* message.ack() / message.nack() as the broker records them.
Ack(sub, m) == [sub EXCEPT ![m].status = "acked"]
\* A nack after which the broker forgets the message.
NackDrops(sub, m) == [sub EXCEPT ![m].status = IF @ = "acked" THEN "acked" ELSE "dropped"]
Nack(sub, m) == [sub EXCEPT ![m].status = IF @ = "acked" THEN "acked" ELSE "pending"]

\* The bodies found in the subscription: a published event, the same event cut
\* short, nothing, text that is no JSON, a byte that is no UTF-8, and JSON
\* that is a list.
SampleOrder == OrderRow(1, validated_data(BasePayload))
RelayBodies ==
    <<message_data(SampleOrder),
      SubSeq(message_data(SampleOrder), 1, 9),
      <<>>,
      <<111, 111, 112, 115>>,
      <<255>>,
      Utf8Encode(json_dumps(JList(<<JInt(1)>>)))>>

\* Lines 63-65 for each of these bodies: message.data.decode("utf-8") and
\* json.loads of the text.
Bodies == {RelayBodies[i] : i \in 1..Len(RelayBodies)}
decoded ==
    [b \in Bodies |-> [text |-> Utf8Decode(b), json |-> json_loads(Utf8Decode(b).str)]]

\* What the callback of message m records about its own delivery.
Acked(rel, m) == [rel EXCEPT !.callback[m].acks = @ + 1]
Nacked(rel, m) == [rel EXCEPT !.callback[m].nacks = @ + 1]
Raised(rel, m) == [rel EXCEPT !.callback[m].raised = TRUE]
Ended(rel, m) == [rel EXCEPT !.callback[m].pc = "idle",
                             !.callback[m].event_data = None,
                             !.callback[m].read = 0]

\* The broker hands message m to the callback while the pull is open.
Deliver(m) ==
    /\ relay.pull = "open"
    /\ relay.phase # "exited"
    /\ relay.callback[m].pc = "idle"
    /\ subscription[m].status = "pending"
    /\ subscription[m].deliveries < MaxDeliveries
    /\ subscription' = [subscription EXCEPT ![m].status = "delivered",
                                            ![m].deliveries = @ + 1]
    /\ relay' = [relay EXCEPT !.callback[m] = [IdleCallback EXCEPT !.pc = "loads"]]
    /\ UNCHANGED <<WEBHOOK_SECRET, orders, items, req, topic, sig, pubsub>>

\* The callback with JSONDecodeError handled like any other exception.
LoadsNackOnJsonError(m) ==
    LET text == decoded[subscription[m].data].text
        parsed == decoded[subscription[m].data].json
    IN  /\ relay.callback[m].pc = "loads"
        /\ IF text.ok /\ parsed.ok /\ parsed.val.t = "dict"
           THEN /\ relay' = [relay EXCEPT !.callback[m].pc = "send",
                                          !.callback[m].event_data = Some(parsed.val)]
                /\ UNCHANGED subscription
           ELSE /\ subscription' = Nack(subscription, m)
                /\ relay' = Ended(Nacked(Raised(relay, m), m), m)
        /\ UNCHANGED <<WEBHOOK_SECRET, orders, items, req, topic, sig, pubsub>>

\* Lines 63-65 with the handlers of lines 99-104: decode and parse the body
\* and read order_id from it.  UnicodeDecodeError (the body is not UTF-8) and
\* AttributeError (the value has no get) end in except Exception: nack;
\* JSONDecodeError ends in its own handler: ack.
Loads(m) ==
    LET text == decoded[subscription[m].data].text
        parsed == decoded[subscription[m].data].json
    IN  /\ relay.callback[m].pc = "loads"
        /\ IF ~text.ok
           THEN /\ subscription' = Nack(subscription, m)
                /\ relay' = Ended(Nacked(Raised(relay, m), m), m)
           ELSE IF ~parsed.ok
           THEN /\ subscription' = Ack(subscription, m)
                /\ relay' = Ended(Acked(Raised(relay, m), m), m)
           ELSE IF parsed.val.t # "dict"
           THEN /\ subscription' = Nack(subscription, m)
                /\ relay' = Ended(Nacked(Raised(relay, m), m), m)
           ELSE /\ relay' = [relay EXCEPT !.callback[m].pc = "send",
                                          !.callback[m].event_data = Some(parsed.val)]
                /\ UNCHANGED subscription
        /\ UNCHANGED <<WEBHOOK_SECRET, orders, items, req, topic, sig, pubsub>>

\* What the egress endpoint may do with one POST.
EgressOutcomes == {"2xx", "non-2xx", "transport error"}

\* send_order_created_webhook with a second POST after a failed one.
PostWithRetry(m) ==
    /\ relay.callback[m].pc = "send"
    /\ \E first \in EgressOutcomes, second \in EgressOutcomes :
          LET tries == IF first = "2xx" THEN 1 ELSE 2
              ok == first = "2xx" \/ second = "2xx"
          IN  relay' = [relay EXCEPT !.callback[m].pc = "settle",
                                     !.callback[m].success = ok,
                                     !.callback[m].outcome = IF ok THEN "2xx" ELSE second,
                                     !.callback[m].posts = @ + tries]
    /\ UNCHANGED <<WEBHOOK_SECRET, orders, items, req, topic, sig, subscription, pubsub>>

\* send_order_created_webhook(event_data): one POST; True only for a 2xx
\* response, False for raise_for_status() or a transport error.
Post(m) ==
    /\ relay.callback[m].pc = "send"
    /\ \E outcome \in EgressOutcomes :
          relay' = [relay EXCEPT !.callback[m].pc = "settle",
                                 !.callback[m].success = (outcome = "2xx"),
                                 !.callback[m].outcome = outcome,
                                 !.callback[m].posts = @ + 1]
    /\ UNCHANGED <<WEBHOOK_SECRET, orders, items, req, topic, sig, subscription, pubsub>>

\* Lines 76-78 and 83-85: message.ack() after a successful call,
\* message.nack() after a failed one.
Settle(m) ==
    /\ relay.callback[m].pc = "settle"
    /\ IF relay.callback[m].success
       THEN /\ subscription' = Ack(subscription, m)
            /\ relay' = [Acked(relay, m) EXCEPT !.callback[m].pc = "report"]
       ELSE /\ subscription' = Nack(subscription, m)
            /\ relay' = [Nacked(relay, m) EXCEPT !.callback[m].pc = "report"]
    /\ UNCHANGED <<WEBHOOK_SECRET, orders, items, req, topic, sig, pubsub>>

\* Lines 79-82 and 86-88: the line written to stdout, then on success the
\* read of message_count for message_count += 1.
Report(m) ==
    /\ relay.callback[m].pc = "report"
    /\ relay' = IF relay.callback[m].success
                THEN [relay EXCEPT !.callback[m].pc = "store",
                                   !.callback[m].read = relay.message_count]
                ELSE [relay EXCEPT !.callback[m].pc = "check"]
    /\ UNCHANGED <<WEBHOOK_SECRET, orders, items, req, topic, sig, subscription, pubsub>>

\* Line 82: the write of message_count += 1.  Callbacks run on the
\* subscriber's thread pool and the counter is shared without a lock.
Store(m) ==
    /\ relay.callback[m].pc = "store"
    /\ relay' = [relay EXCEPT !.callback[m].pc = "check",
                              !.message_count = relay.callback[m].read + 1]
    /\ UNCHANGED <<WEBHOOK_SECRET, orders, items, req, topic, sig, subscription, pubsub>>

\* Line 91: if max_messages and message_count >= max_messages.
ReachedMax(rel) ==
    /\ rel.max_messages # None
    /\ Val(rel.max_messages) # 0
    /\ rel.message_count >= Val(rel.max_messages)

\* Lines 130-133 of _shutdown: cancel the pull if the future is set.
Cancelled(rel) ==
    [rel EXCEPT !.pull = IF rel.future /\ @ = "open" THEN "cancelled" ELSE @]

\* The test of line 91 on the wrong side: shut down unless the count is reached.
CheckAlways(m) ==
    /\ relay.callback[m].pc = "check"
    /\ relay' = IF ~ReachedMax(relay) THEN Ended(Cancelled(relay), m)
                ELSE Ended(relay, m)
    /\ UNCHANGED <<WEBHOOK_SECRET, orders, items, req, topic, sig, subscription, pubsub>>

\* Lines 91-97: the max_messages test after either branch; _shutdown called
\* from the callback cancels the pull, and its sys.exit(0) ends the callback's
\* thread only.
Check(m) ==
    /\ relay.callback[m].pc = "check"
    /\ relay' = IF ReachedMax(relay) THEN Ended(Cancelled(relay), m)
                ELSE Ended(relay, m)
    /\ UNCHANGED <<WEBHOOK_SECRET, orders, items, req, topic, sig, subscription, pubsub>>

\* Where a statement inside the try of lines 63-97 may raise for a message
\* that parsed: the stdout and log lines before the call (67-71), after
\* ack or nack (79-81, 86-88), and before _shutdown (92-96).
MayRaise(m) ==
    \/ relay.callback[m].pc \in {"send", "report"}
    \/ relay.callback[m].pc = "check" /\ ReachedMax(relay)

\* Lines 102-104: except Exception logs and nacks.
CallbackRaises(m) ==
    /\ MayRaise(m)
    /\ subscription' = Nack(subscription, m)
    /\ relay' = Ended(Nacked(Raised(relay, m), m), m)
    /\ UNCHANGED <<WEBHOOK_SECRET, orders, items, req, topic, sig, pubsub>>

\* sys.exit(code) or the return of handle() on the main thread.
Exited(rel, code, cause) ==
    [rel EXCEPT !.phase = "exited", !.exit_code = Some(code), !.stopped_by = cause]

\* handle going on to install the handlers and subscribe after a failure of
\* setup_pubsub.
SetupFailureIgnored ==
    /\ relay.phase = "setup"
    /\ \E ok \in BOOLEAN :
          relay' = IF ok THEN [relay EXCEPT !.phase = "install"]
                   ELSE [relay EXCEPT !.phase = "install", !.stopped_by = "setup"]
    /\ UNCHANGED <<WEBHOOK_SECRET, orders, items, req, topic, sig, subscription, pubsub>>

\* handle, lines 38-43: setup_pubsub(); a failure is reported and the
\* process exits with status 1.
Setup ==
    /\ relay.phase = "setup"
    /\ \E ok \in BOOLEAN :
          relay' = IF ok THEN [relay EXCEPT !.phase = "install"]
                   ELSE Exited(relay, 1, "setup")
    /\ UNCHANGED <<WEBHOOK_SECRET, orders, items, req, topic, sig, subscription, pubsub>>

\* handle, lines 46-47: signal.signal for SIGINT and SIGTERM.
InstallHandlers ==
    /\ relay.phase = "install"
    /\ relay' = [relay EXCEPT !.phase = "subscribe", !.handlers = TRUE]
    /\ UNCHANGED <<WEBHOOK_SECRET, orders, items, req, topic, sig, subscription, pubsub>>

\* Line 108, the call: subscriber.subscribe opens the streaming pull and
\* returns its future; an exception goes to lines 120-123, where _shutdown
\* finds no future to cancel and exits with status 0.
Subscribe ==
    /\ relay.phase = "subscribe"
    /\ \E ok \in BOOLEAN :
          relay' = IF ok THEN [relay EXCEPT !.phase = "assign", !.pull = "open"]
                   ELSE Exited(relay, 0, "subscribe")
    /\ UNCHANGED <<WEBHOOK_SECRET, orders, items, req, topic, sig, subscription, pubsub>>

\* Line 108, the assignment to self.streaming_pull_future; the main thread
\* then blocks in result() (line 118).
AssignFuture ==
    /\ relay.phase = "assign"
    /\ relay' = [relay EXCEPT !.phase = "running", !.future = TRUE]
    /\ UNCHANGED <<WEBHOOK_SECRET, orders, items, req, topic, sig, subscription, pubsub>>

\* Lines 120-123 without the call of _shutdown.
PullFailureIgnored ==
    /\ relay.phase = "running"
    /\ relay.pull = "open"
    /\ relay' = [relay EXCEPT !.stopped_by = "pull"]
    /\ UNCHANGED <<WEBHOOK_SECRET, orders, items, req, topic, sig, subscription, pubsub>>

\* Lines 118-123: result() raises; _shutdown cancels the pull and exits
\* with status 0.
PullFailure ==
    /\ relay.phase = "running"
    /\ relay.pull = "open"
    /\ relay' = Exited(Cancelled(relay), 0, "pull")
    /\ UNCHANGED <<WEBHOOK_SECRET, orders, items, req, topic, sig, subscription, pubsub>>

\* Line 118 after a callback cancelled the pull: result() returns and
\* handle() with it.
Return ==
    /\ relay.phase = "running"
    /\ relay.pull = "cancelled"
    /\ relay' = Exited(relay, 0, "max_messages")
    /\ UNCHANGED <<WEBHOOK_SECRET, orders, items, req, topic, sig, subscription, pubsub>>

\* Lines 125-135: SIGINT or SIGTERM once the handler is installed; it runs
\* on the main thread between two of its instructions, calls _shutdown, which
\* cancels the pull if self.streaming_pull_future is set, and exits with
\* status 0.
Signal ==
    /\ relay.handlers
    /\ relay.phase # "exited"
    /\ relay' = Exited(Cancelled(relay), 0, "signal")
    /\ UNCHANGED <<WEBHOOK_SECRET, orders, items, req, topic, sig, subscription, pubsub>>

\* --max-messages: not given, 0, 1 or 2.
MaxMessagesArgs == {None, Some(0), Some(1), Some(2)}

\* The relay once handle() blocks in result(): handlers installed, the pull
\* open, its future stored.
RelayRunning(n) ==
    [RelayOff EXCEPT !.phase = "running", !.max_messages = n, !.pull = "open",
                     !.future = TRUE, !.handlers = TRUE]

InitRelay ==
    /\ WEBHOOK_SECRET = Some(SenderSecret)
    /\ orders = {}
    /\ items = {}
    /\ req = [r \in Req |-> IdleReq]
    /\ topic = <<>>
    /\ sig = SigIdle
    /\ pubsub = PubsubOff
    /\ \E choice \in [Msg -> 1..Len(RelayBodies)] :
          /\ \A m \in Msg : m > 1 => choice[m - 1] <= choice[m]
          /\ subscription = [m \in Msg |-> [NoMessage EXCEPT !.data = RelayBodies[choice[m]],
                                                             !.status = "pending"]]
    /\ \E n \in {None, Some(1)} : relay = RelayRunning(n)

NextRelay ==
    \/ \E m \in Msg :
          \/ Deliver(m)
          \/ Loads(m)
          \/ Post(m)
          \/ Settle(m)
          \/ Report(m)
          \/ Store(m)
          \/ Check(m)
    \/ Return

SpecRelay == InitRelay /\ [][NextRelay]_vars

(***************************************************************************)
(* SpecRun: the relay command from handle() on, with the faults of its     *)
(* surroundings: setup, subscribe and pull failures, and signals.  The     *)
(* subscription holds published events and, last, one body cut short.      *)
(***************************************************************************)
RunBodies == <<RelayBodies[1], RelayBodies[2]>>

InitRun ==
    /\ WEBHOOK_SECRET = Some(SenderSecret)
    /\ orders = {}
    /\ items = {}
    /\ req = [r \in Req |-> IdleReq]
    /\ topic = <<>>
    /\ sig = SigIdle
    /\ pubsub = PubsubOff
    /\ subscription = [m \in Msg |-> [NoMessage EXCEPT !.data = RunBodies[IF m < NumMsg THEN 1 ELSE 2],
                                                       !.status = "pending"]]
    /\ \E n \in {None, Some(1)} :
          relay = [RelayOff EXCEPT !.phase = "setup", !.max_messages = n]

NextRun ==
    \/ Setup
    \/ InstallHandlers
    \/ Subscribe
    \/ AssignFuture
    \/ PullFailure
    \/ Return
    \/ Signal
    \/ \E m \in Msg :
          \/ Deliver(m)
          \/ Loads(m)
          \/ Post(m)
          \/ Settle(m)
          \/ Report(m)
          \/ Store(m)
          \/ Check(m)

SpecRun == InitRun /\ [][NextRun]_vars

(***************************************************************************)
(* SpecCallback: the running relay with every --max-messages value, its    *)
(* callbacks on the subscriber's thread pool, and statements of the        *)
(* callback that raise.                                                    *)
(***************************************************************************)
InitCallback ==
    /\ WEBHOOK_SECRET = Some(SenderSecret)
    /\ orders = {}
    /\ items = {}
    /\ req = [r \in Req |-> IdleReq]
    /\ topic = <<>>
    /\ sig = SigIdle
    /\ pubsub = PubsubOff
    /\ \E choice \in [Msg -> 1..Len(RunBodies)] :
          /\ \A m \in Msg : m > 1 => choice[m - 1] <= choice[m]
          /\ subscription = [m \in Msg |-> [NoMessage EXCEPT !.data = RunBodies[choice[m]],
                                                             !.status = "pending"]]
    /\ \E n \in MaxMessagesArgs : relay = RelayRunning(n)

NextCallback ==
    \/ Return
    \/ \E m \in Msg :
          \/ Deliver(m)
          \/ Loads(m)
          \/ Post(m)
          \/ Settle(m)
          \/ Report(m)
          \/ Store(m)
          \/ Check(m)
          \/ CallbackRaises(m)

SpecCallback == InitCallback /\ [][NextCallback]_vars

(***************************************************************************)
(* SpecLive: the running relay in unbounded mode with a fair broker, fair  *)
(* callback threads, and an egress endpoint that is down for a while and   *)
(* then up: it fails no delivery that is the last one the broker makes.    *)
(***************************************************************************)
\* send_order_created_webhook against that endpoint.
PostUntilUp(m) ==
    /\ relay.callback[m].pc = "send"
    /\ \E outcome \in EgressOutcomes :
          /\ outcome # "2xx" => subscription[m].deliveries < MaxDeliveries
          /\ relay' = [relay EXCEPT !.callback[m].pc = "settle",
                                    !.callback[m].success = (outcome = "2xx"),
                                    !.callback[m].outcome = outcome,
                                    !.callback[m].posts = @ + 1]
    /\ UNCHANGED <<WEBHOOK_SECRET, orders, items, req, topic, sig, subscription, pubsub>>

InitLive ==
    /\ WEBHOOK_SECRET = Some(SenderSecret)
    /\ orders = {}
    /\ items = {}
    /\ req = [r \in Req |-> IdleReq]
    /\ topic = <<>>
    /\ sig = SigIdle
    /\ pubsub = PubsubOff
    /\ \E choice \in [Msg -> 1..Len(RunBodies)] :
          /\ \A m \in Msg : m > 1 => choice[m - 1] <= choice[m]
          /\ subscription = [m \in Msg |-> [NoMessage EXCEPT !.data = RunBodies[choice[m]],
                                                             !.status = "pending"]]
    /\ \E n \in {None, Some(0)} : relay = RelayRunning(n)

Step(m) ==
    \/ Deliver(m)
    \/ Loads(m)
    \/ PostUntilUp(m)
    \/ Settle(m)
    \/ Report(m)
    \/ Store(m)
    \/ Check(m)

NextLive == \E m \in Msg : Step(m)

SpecLive == InitLive /\ [][NextLive]_vars /\ \A m \in Msg : WF_vars(Step(m))

(***************************************************************************)
(* SpecPubsub: orders/pubsub_utils.py and publish_order_created called by  *)
(* NumCallers concurrent callers, making up to MaxCalls calls, against a   *)
(* broker that creates a name at most once, may fail any request, and    *)
(* may acknowledge a published message in time, late or never.             *)
(***************************************************************************)
\* get_topic_path() and get_subscription_path().
TopicPath == "projects/orderbus/topics/order-created"
SubscriptionPath == "projects/orderbus/subscriptions/order-created-sub"

Functions == {"ensure_topic_exists", "setup_pubsub", "publish_order_created"}

\* What the broker does with a create request: it serves it (creating the
\* name or answering AlreadyExists) or fails it with another error.
CreateOutcomes == {"served", "error"}

\* What becomes of a message handed to publisher.publish: stored and
\* acknowledged in time, rejected, stored but acknowledged after the
\* timeout, or never stored nor acknowledged.
Fates == {"acked", "failed", "late", "lost"}

\* The call of caller c ends by raising.
Raise(ps, c, fault) ==
    [ps EXCEPT !.call[c].pc = "done", !.call[c].raised = TRUE, !.call[c].fault = fault]

\* The call of caller c ends by returning v.
ReturnValue(ps, c, v) == [ps EXCEPT !.call[c].pc = "done", !.call[c].ret = Some(v)]

\* A caller enters one of the three functions.
Call(c) ==
    /\ pubsub.call[c].pc \in {"idle", "done"}
    /\ pubsub.calls < MaxCalls
    /\ \E f \in Functions :
          pubsub' = [pubsub EXCEPT !.calls = @ + 1,
                                   !.call[c] = [IdleCall EXCEPT !.op = f, !.pc = "create_topic"]]
    /\ UNCHANGED <<WEBHOOK_SECRET, orders, items, req, topic, sig, subscription, relay>>

\* ensure_topic_exists with AlreadyExists handled like any other error.
CreateTopicStrict(c) ==
    /\ pubsub.call[c].pc = "create_topic"
    /\ \E outcome \in CreateOutcomes :
          pubsub' =
              IF outcome = "error" THEN Raise(pubsub, c, TRUE)
              ELSE IF pubsub.topics >= 1 THEN Raise(pubsub, c, FALSE)
              ELSE LET ps == [pubsub EXCEPT !.topics = 1] IN
                   IF pubsub.call[c].op = "ensure_topic_exists" THEN ReturnValue(ps, c, TopicPath)
                   ELSE IF pubsub.call[c].op = "setup_pubsub"
                        THEN [ps EXCEPT !.call[c].pc = "create_subscription"]
                        ELSE [ps EXCEPT !.call[c].pc = "publish"]
    /\ UNCHANGED <<WEBHOOK_SECRET, orders, items, req, topic, sig, subscription, relay>>

\* ensure_topic_exists (pubsub_utils.py 26-45) as called directly, from
\* setup_pubsub (line 76) and from publish_order_created (publishers.py 36):
\* create_topic; AlreadyExists is logged and passed over, any other error is
\* raised, and the topic path is returned.
CreateTopic(c) ==
    /\ pubsub.call[c].pc = "create_topic"
    /\ \E outcome \in CreateOutcomes :
          pubsub' =
              IF outcome = "error" THEN Raise(pubsub, c, TRUE)
              ELSE LET ps == [pubsub EXCEPT !.topics = IF @ = 0 THEN 1 ELSE @] IN
                   IF pubsub.call[c].op = "ensure_topic_exists" THEN ReturnValue(ps, c, TopicPath)
                   ELSE IF pubsub.call[c].op = "setup_pubsub"
                        THEN [ps EXCEPT !.call[c].pc = "create_subscription"]
                        ELSE [ps EXCEPT !.call[c].pc = "publish"]
    /\ UNCHANGED <<WEBHOOK_SECRET, orders, items, req, topic, sig, subscription, relay>>

\* ensure_subscription_exists (48-68) from setup_pubsub (line 77):
\* create_subscription on the topic; AlreadyExists is passed over, any other
\* error is raised.  setup_pubsub returns None.
CreateSubscription(c) ==
    /\ pubsub.call[c].pc = "create_subscription"
    /\ \E outcome \in CreateOutcomes :
          pubsub' =
              IF outcome = "error" \/ pubsub.topics = 0 THEN Raise(pubsub, c, TRUE)
              ELSE ReturnValue([pubsub EXCEPT !.subscriptions = IF @ = 0 THEN 1 ELSE @],
                               c, SubscriptionPath)
    /\ UNCHANGED <<WEBHOOK_SECRET, orders, items, req, topic, sig, subscription, relay>>

\* publish_order_created, lines 39-45: the message is handed to the
\* publisher client, which sends it in the background.
Publish(c) ==
    /\ pubsub.call[c].pc = "publish"
    /\ \E fate \in Fates :
          LET stored == fate \in {"acked", "late"}
              count == IF stored THEN pubsub.messages + 1 ELSE pubsub.messages
          IN  pubsub' = [pubsub EXCEPT !.messages = count,
                                       !.call[c].pc = "result",
                                       !.call[c].published = TRUE,
                                       !.call[c].fate = fate,
                                       !.call[c].id = IF stored THEN count ELSE 0]
    /\ UNCHANGED <<WEBHOOK_SECRET, orders, items, req, topic, sig, subscription, relay>>

\* future.result() without a timeout: it waits for the broker.
AwaitResultForever(c) ==
    /\ pubsub.call[c].pc = "result"
    /\ pubsub.call[c].fate \in {"acked", "failed"}
    /\ pubsub' = IF pubsub.call[c].fate = "acked"
                 THEN ReturnValue(pubsub, c, pubsub.call[c].id)
                 ELSE Raise(pubsub, c, TRUE)
    /\ UNCHANGED <<WEBHOOK_SECRET, orders, items, req, topic, sig, subscription, relay>>

\* publish_order_created, lines 48-58: future.result(timeout=2.0) returns
\* the message id, or raises the publish error or TimeoutError, which is
\* logged and raised again.
AwaitResult(c) ==
    /\ pubsub.call[c].pc = "result"
    /\ pubsub' = IF pubsub.call[c].fate = "acked"
                 THEN ReturnValue(pubsub, c, pubsub.call[c].id)
                 ELSE Raise(pubsub, c, pubsub.call[c].fate = "failed")
    /\ UNCHANGED <<WEBHOOK_SECRET, orders, items, req, topic, sig, subscription, relay>>

\* The broker before the calls: without the topic, with it, or with the
\* topic and the subscription.
InitPubsub ==
    /\ WEBHOOK_SECRET = Some(SenderSecret)
    /\ orders = {}
    /\ items = {}
    /\ req = [r \in Req |-> IdleReq]
    /\ topic = <<>>
    /\ sig = SigIdle
    /\ subscription = NoMessages
    /\ relay = RelayOff
    /\ \E t \in {0, 1} : \E s \in {0, 1} :
          /\ s <= t
          /\ pubsub = [PubsubOff EXCEPT !.topics = t, !.subscriptions = s]

Work(c) ==
    \/ CreateTopic(c)
    \/ CreateSubscription(c)
    \/ Publish(c)
    \/ AwaitResult(c)

NextPubsub == \E c \in Caller : Call(c) \/ Work(c)

SpecPubsub == InitPubsub /\ [][NextPubsub]_vars

\* The same with every caller's thread running on: a call that can take a
\* step eventually takes one.
SpecPubsubLive == SpecPubsub /\ \A c \in Caller : WF_vars(Work(c))

(***************************************************************************)
(* SpecConflict: requests against a database that already holds two        *)
(* orders, one stored with an idempotency key and one without.             *)
(***************************************************************************)
Id3 == <<51>>
StoredA == OrderRow(NumReq + 1, validated_data(MakePayload(Id1, Some(KeyK), 1)))
StoredB == OrderRow(NumReq + 2, validated_data(MakePayload(Id2, None, 1)))
StoredItems ==
    {OrderItemRow(NumReq + 1, validated_data(MakePayload(Id1, Some(KeyK), 1)), 1),
     OrderItemRow(NumReq + 2, validated_data(MakePayload(Id2, None, 1)), 1)}

\* The key of one stored order with the order id of the other, of the same
\* order, or of none; no key with a stored and with a new order id.
ConflictPayloads ==
    {MakePayload(Id2, Some(KeyK), 1), MakePayload(Id2, Some(KeyKPadded), 1),
     MakePayload(Id1, Some(KeyK), 1), MakePayload(Id3, Some(KeyK), 1),
     MakePayload(Id2, None, 1), MakePayload(Id3, None, 1)}

ConflictRequests == {Request(p, SignedHex(p)) : p \in ConflictPayloads}

InitConflict ==
    /\ WEBHOOK_SECRET = Some(SenderSecret)
    /\ orders = {StoredA, StoredB}
    /\ items = StoredItems
    /\ req = [r \in Req |-> IdleReq]
    /\ topic = <<>>
    /\ sig = SigIdle
    /\ subscription = NoMessages
    /\ relay = RelayOff
    /\ pubsub = PubsubOff

NextConflict ==
    \E r \in Req :
        \/ Receive(r, ConflictRequests)
        \/ Verify(r)
        \/ Validate(r)
        \/ PreCheck(r)
        \/ Create(r)
        \/ InsertOrder(r)
        \/ InsertItem(r)
        \/ Commit(r)
        \/ HandleIntegrityError(r)
        \/ PublishOk(r)
        \/ PublishFail(r)

SpecConflict == InitConflict /\ [][NextConflict]_vars

(***************************************************************************)
(* SpecDuplicate: requests against the database of SpecConflict whose      *)
(* payloads repeat the key or the order id of a stored order with another  *)
(* customer, address, item list and total.                                 *)
(***************************************************************************)
\* The payload of order id and key with two items, their total, and a
\* customer and an address that no stored order has.
Changed(oid, key) ==
    [MakePayload(oid, key, 2) EXCEPT
        !.customer = Some([name |-> Some(<<66>>), email |-> Some(<<98, 64, 120>>)]),
        !.shipping_address = Some(<<101, 108, 115, 101>>)]

\* Duplicates by key (with the same, another and a padded spelling), by order
\* id (plain and padded), and a first-time payload that later requests repeat.
DuplicatePayloads ==
    {Changed(Id1, Some(KeyK)), Changed(Id3, Some(KeyK)), Changed(Id3, Some(KeyKPadded)),
     Changed(Id1, None), Changed(Id2, None), Changed(Id1Padded, None),
     Changed(Id3, None), MakePayload(Id3, None, 1)}

DuplicateRequests == {Request(p, SignedHex(p)) : p \in DuplicatePayloads}

NextDuplicate ==
    \E r \in Req :
        \/ Receive(r, DuplicateRequests)
        \/ Verify(r)
        \/ Validate(r)
        \/ PreCheck(r)
        \/ Create(r)
        \/ InsertOrder(r)
        \/ InsertItem(r)
        \/ Commit(r)
        \/ HandleIntegrityError(r)
        \/ PublishOk(r)
        \/ PublishFail(r)

SpecDuplicate == InitConflict /\ [][NextDuplicate]_vars

(***************************************************************************)
(* SpecSteps: requests against the database of SpecConflict in which more  *)
(* than one step could decide the answer: each payload, valid or without   *)
(* items, repeating a stored key or order id or not, arrives with a valid  *)
(* signature, with a wrong one and with none.                              *)
(***************************************************************************)
StepPayloads ==
    {MakePayload(Id3, Some(KeyK), 0), MakePayload(Id2, None, 0),
     MakePayload(Id1, Some(KeyK), 1), MakePayload(Id2, None, 1), MakePayload(Id3, None, 1)}

WronglySigned == [signature |-> Some(WrongSignature), shopify_signature |-> None]

StepRequests ==
    {Request(p, h) : p \in StepPayloads, h \in {Unsigned, WronglySigned}}
    \cup {Request(p, SignedHex(p)) : p \in StepPayloads}

NextSteps ==
    \E r \in Req :
        \/ Receive(r, StepRequests)
        \/ Verify(r)
        \/ Validate(r)
        \/ PreCheck(r)
        \/ Create(r)
        \/ InsertOrder(r)
        \/ InsertItem(r)
        \/ Commit(r)
        \/ HandleIntegrityError(r)
        \/ PublishOk(r)
        \/ PublishFail(r)

SpecSteps == InitConflict /\ [][NextSteps]_vars

(***************************************************************************)
(* Properties.                                                             *)
(***************************************************************************)
Done(r) == req[r].pc = "done"
Received(r) == req[r].pc # "idle"
Data(r) == Val(req[r].data)
Validated(r) == Val(req[r].validated)
\* The request passed the signature check and carries a valid payload.
Accepted(r) == req[r].validated # None
OrdersWithRef(ref) == {o \in orders : o.external_ref = ref}
ItemsOf(id) == {it \in items : it.order = id}
PublishedBy(r) == {i \in 1..Len(topic) : topic[i].publisher = r}

\* C1: the Order table never holds two rows with the same external_ref, nor
\* two rows with the same non-null idempotency_key.
C1_UniqueOrders ==
    \A a \in orders : \A b \in orders :
        (a.external_ref = b.external_ref
         \/ (a.idempotency_key # None /\ a.idempotency_key = b.idempotency_key))
        => a = b

\* C1 witness: an INSERT was refused by a unique index while a row is stored.
C1_Witness == \E r \in Req : req[r].pc = "integrity_error" /\ orders # {}

\* An order stored by another request matches r's order id or idempotency key.
MatchesOther(r) ==
    \E o \in orders :
        /\ o.id # r
        /\ \/ o.external_ref = Validated(r).external_ref
           \/ /\ Validated(r).idempotency_key # None
              /\ o.idempotency_key = Validated(r).idempotency_key

\* C2: an accepted request whose order id and idempotency key match no order
\* stored by anyone else is answered 201 created=true, and exactly one Order
\* with its order id and exactly N OrderItems of that order are stored.
C2_FirstTimeCreates ==
    \A r \in Req :
        (Done(r) /\ Accepted(r) /\ ~MatchesOther(r)) =>
            /\ req[r].resp = Respond(201, Some(TRUE), Some(Validated(r).external_ref))
            /\ Cardinality(OrdersWithRef(Validated(r).external_ref)) = 1
            /\ \A o \in OrdersWithRef(Validated(r).external_ref) : o.id = r
            /\ Cardinality(ItemsOf(r)) = Len(Validated(r).items)

\* C2 witness: a first-time payload with two items was answered 201.
C2_Witness ==
    \E r \in Req :
        /\ Done(r) /\ Accepted(r) /\ ~MatchesOther(r)
        /\ Len(Validated(r).items) = 2
        /\ req[r].resp.status = 201
        /\ Cardinality(ItemsOf(r)) = 2

Inserted(r) == \E o \in orders : o.id = r
WroteNothing(r) == ~Inserted(r) /\ ItemsOf(r) = {} /\ req[r].txn = NoTxn

\* C3: when an accepted payload carrying an idempotency_key was answered 201
\* and the same payload is sent again afterwards, the second request is answered
\* 200 created=false with the same order_id, adds no row and publishes nothing.
C3_SameKeyTwice ==
    \A a \in Req : \A b \in Req :
        (/\ a \in req[b].seen /\ Done(b)
         /\ Accepted(a) /\ Accepted(b)
         /\ Data(a) = Data(b)
         /\ Data(a).idempotency_key # None
         /\ req[a].resp.status = 201)
        => /\ req[b].resp = Respond(200, Some(FALSE), req[a].resp.order_id)
           /\ WroteNothing(b)
           /\ req[b].publish = "none"

\* No request other than a and b carries the order id of a.
OnlyThese(a, b) ==
    \A q \in Req \ {a, b} :
        Accepted(q) => Validated(q).external_ref # Validated(a).external_ref

\* C4: of two accepted requests with the same order_id and no idempotency_key,
\* however their steps interleave, one is answered 201 created=true and the
\* other 200 created=false, and exactly one Order with that order_id is stored.
C4_SameOrderIdNoKey ==
    \A a \in Req : \A b \in Req :
        (/\ a # b /\ Done(a) /\ Done(b)
         /\ Accepted(a) /\ Accepted(b)
         /\ Data(a).order_id = Data(b).order_id
         /\ Data(a).idempotency_key = None /\ Data(b).idempotency_key = None
         /\ OnlyThese(a, b))
        => /\ Cardinality(OrdersWithRef(Validated(a).external_ref)) = 1
           /\ {req[a].resp.status, req[b].resp.status} = {201, 200}
           /\ \A q \in {a, b} : req[q].resp.created = Some(req[q].resp.status = 201)

\* C5: of two accepted requests carrying the same idempotency_key, however
\* their steps interleave, at most one is answered 201 created=true and any
\* other is answered created=false.
C5_SameKeyConcurrent ==
    \A a \in Req : \A b \in Req :
        (/\ a # b /\ Done(a) /\ Done(b)
         /\ Accepted(a) /\ Accepted(b)
         /\ Truthy(Data(a).idempotency_key)
         /\ Data(a).idempotency_key = Data(b).idempotency_key)
        => /\ ~(req[a].resp.status = 201 /\ req[b].resp.status = 201)
           /\ \A q \in {a, b} : req[q].resp.status # 201 => req[q].resp.created = Some(FALSE)

\* C6: publish_order_created is called only by a request that inserted the
\* Order row itself, and at most once for each stored Order.
C6_PublishOnlyByCreator ==
    /\ \A r \in Req : req[r].publish # "none" => Inserted(r)
    /\ \A o \in orders :
          Cardinality({r \in Req : req[r].publish # "none" /\ req[r].order = Some(o)}) <= 1

\* The signatures a holder of the secret computes over the raw body.
ExpectedHex(body, secret) == HexEncode(HmacSha256(Utf8Encode(secret), body))
ExpectedBase64(body, secret) == B64Encode(HmacSha256(Utf8Encode(secret), body))

\* Neither header carries the signature it is meant to carry.
NoValidSignature(r) ==
    /\ req[r].headers.signature # Some(ExpectedHex(req[r].body, Val(WEBHOOK_SECRET)))
    /\ req[r].headers.shopify_signature
          # Some(ExpectedBase64(req[r].body, Val(WEBHOOK_SECRET)))

\* C7: with a secret configured, a request whose headers carry no valid
\* signature (wrong, empty or absent) is answered 401 right after the check,
\* writes no Order or OrderItem and publishes nothing.
C7_BadSignatureIs401 ==
    \A r \in Req :
        (Truthy(WEBHOOK_SECRET) /\ req[r].pc \notin {"idle", "verify"} /\ NoValidSignature(r))
        => /\ Done(r)
           /\ req[r].resp = Respond(401, None, None)
           /\ WroteNothing(r)
           /\ req[r].publish = "none" /\ PublishedBy(r) = {}

\* C7 witness: a request with a wrong X-Webhook-Signature was answered 401.
C7_Witness ==
    \E r \in Req :
        /\ Truthy(WEBHOOK_SECRET) /\ Done(r)
        /\ req[r].headers.signature = Some(WrongSignature)
        /\ req[r].headers.shopify_signature = None
        /\ req[r].resp.status = 401

\* The secret a verifier call works with is non-empty.
SecretInForce == Truthy(EffectiveSecret(sig.secret))
Returned(fn) == sig.phase = "returned" /\ sig.fn = fn

\* C8: a signature made by the sender with the verifier's non-empty secret,
\* hex for verify_webhook_signature and base64 for verify_shopify_webhook, and
\* delivered unaltered with its body, is accepted.
C8_SignatureRoundTrip ==
    (/\ sig.phase = "returned" /\ ~sig.altered
     /\ SecretInForce /\ Val(EffectiveSecret(sig.secret)) = sig.key
     /\ \/ sig.fn = "verify_webhook_signature" /\ sig.signed = "hex"
        \/ sig.fn = "verify_shopify_webhook" /\ sig.signed = "base64")
    => sig.ret = TRUE

\* C8 witness: a base64 signature under a non-ASCII secret was accepted.
C8_Witness ==
    /\ Returned("verify_shopify_webhook") /\ sig.signed = "base64" /\ ~sig.altered
    /\ sig.key = <<115, 233>> /\ sig.secret = Some(sig.key)
    /\ sig.ret = TRUE

\* C9: with a non-empty secret, a verifier returns true only if the header is
\* exactly the expected signature of the body it was given (hex for
\* verify_webhook_signature, base64 for verify_shopify_webhook).
C9_OnlyExpectedAccepted ==
    (sig.phase = "returned" /\ SecretInForce /\ sig.ret = TRUE)
    => sig.signature_header =
          Some(IF sig.fn = "verify_webhook_signature"
               THEN ExpectedHex(sig.request_body, Val(EffectiveSecret(sig.secret)))
               ELSE ExpectedBase64(sig.request_body, Val(EffectiveSecret(sig.secret))))

\* C9 witness: a hex signature with its last character cut off was rejected.
C9_Witness ==
    /\ Returned("verify_webhook_signature") /\ SecretInForce
    /\ sig.signed = "hex" /\ sig.altered /\ Val(EffectiveSecret(sig.secret)) = sig.key
    /\ Truthy(sig.signature_header)
    /\ Len(Val(sig.signature_header)) = 2 * DigestLen - 1
    /\ sig.ret = FALSE

\* C10: with no secret configured (unset or empty), both verifiers return
\* true whatever the body and the header, an absent header included.
C10_NoSecretPasses ==
    (sig.phase = "returned" /\ ~SecretInForce) => sig.ret = TRUE

\* A header carries the signature it is meant to carry: X-Webhook-Signature the
\* hex signature of the body, or X-Shopify-Hmac-SHA256 the base64 one.
HasValidSignature(r) ==
    \/ req[r].headers.signature = Some(ExpectedHex(req[r].body, Val(WEBHOOK_SECRET)))
    \/ req[r].headers.shopify_signature
          = Some(ExpectedBase64(req[r].body, Val(WEBHOOK_SECRET)))

\* C11: with a secret configured, a request passes the signature check (it is
\* not answered 401) whenever X-Webhook-Signature carries the valid hex
\* signature or X-Shopify-Hmac-SHA256 the valid base64 signature, whatever the
\* other header contains.
C11_EitherHeaderAuthenticates ==
    \A r \in Req :
        (Truthy(WEBHOOK_SECRET) /\ req[r].pc \notin {"idle", "verify"} /\ HasValidSignature(r))
        => req[r].resp.status # 401


\* The payload has no items field, an empty items list, or an item whose
\* quantity is below 1.
BadItems(data) ==
    \/ data.items = None
    \/ Val(data.items) = <<>>
    \/ \E i \in 1..Len(Val(data.items)) :
          /\ Val(data.items)[i].quantity # None
          /\ Val(Val(data.items)[i].quantity) < 1

\* The request passed the signature check and went through validation.
Checked(r) == req[r].pc \notin {"idle", "verify", "validate"} /\ req[r].resp.status # 401

\* C12: a payload that is missing items, has an empty items list, or has an
\* item with quantity below 1 is answered 400 with an errors body naming
\* items; no Order or OrderItem is written and no event is published.
C12_BadItemsIs400 ==
    \A r \in Req :
        (Checked(r) /\ BadItems(Data(r)))
        => /\ Done(r)
           /\ req[r].resp = Respond(400, None, None)
           /\ "items" \in req[r].errors
           /\ WroteNothing(r) /\ orders = {} /\ items = {}
           /\ req[r].publish = "none" /\ topic = <<>>

\* C12 witness: a payload whose second item has quantity 0 was answered 400.
C12_Witness ==
    \E r \in Req :
        /\ Done(r) /\ req[r].resp.status = 400 /\ req[r].errors = {"items"}
        /\ Data(r).items # None
        /\ Len(Val(Data(r).items)) = 2
        /\ Val(Data(r).items)[1].quantity = Some(0)

\* C13: a payload whose customer.email is the empty string is answered 400
\* and no Order is persisted.
C13_EmptyEmailIs400 ==
    \A r \in Req :
        (/\ Checked(r)
         /\ Data(r).customer # None
         /\ Val(Data(r).customer).email = Some(EmptyStr))
        => /\ Done(r)
           /\ req[r].resp.status = 400
           /\ orders = {}

\* C14: a payload with a negative item unit_price or a negative total is
\* answered 400 and never persisted: every stored Order has total >= 0 and
\* every stored OrderItem has unit_price >= 0 and quantity >= 1.
C14_NoNegativeMoney ==
    /\ \A r \in Req :
          (/\ Checked(r)
           /\ \/ Data(r).total # None /\ Val(Data(r).total) < 0
              \/ /\ Data(r).items # None
                 /\ \E i \in 1..Len(Val(Data(r).items)) :
                       /\ Val(Data(r).items)[i].unit_price # None
                       /\ Val(Val(Data(r).items)[i].unit_price) < 0)
          => Done(r) /\ req[r].resp.status = 400 /\ WroteNothing(r)
    /\ \A o \in orders : o.total >= 0
    /\ \A it \in items : it.unit_price >= 0 /\ it.quantity >= 1


\* The order inserted by request r and the number of its stored items.
OrderOf(r) == {o \in orders : o.id = r}

\* C15: when publish_order_created fails (an exception, the timeout included)
\* after the request inserted its Order, the request is still answered 201
\* created=true and the Order stays stored with all its OrderItems.
C15_PublishFailureStill201 ==
    \A r \in Req :
        (Done(r) /\ req[r].publish = "failed" /\ req[r].order = Some(OrderRow(r, Validated(r))))
        => /\ req[r].resp = Respond(201, Some(TRUE), Some(Validated(r).external_ref))
           /\ OrderOf(r) = {OrderRow(r, Validated(r))}
           /\ ItemsOf(r) = {OrderItemRow(r, Validated(r), k) : k \in 1..Len(Validated(r).items)}

\* C15 witness: the publish of a two-item order timed out, the answer is 201
\* and both items are stored.
C15_Witness ==
    \E r \in Req :
        /\ Done(r) /\ req[r].publish = "failed" /\ Inserted(r)
        /\ PublishedBy(r) # {}
        /\ req[r].resp.status = 201
        /\ Cardinality(ItemsOf(r)) = 2


\* The rows a committed order has: the items of the payload of its creator.
ItemRowsOf(o) == {OrderItemRow(o.id, Validated(o.id), k) : k \in 1..Len(Validated(o.id).items)}

\* C16: a request is at its publish step, or has made its publish attempt,
\* only with no transaction of its own open and with the order it publishes
\* committed together with all its items; every event on the topic is the
\* event of a stored order.
C16_PublishAfterCommit ==
    /\ \A r \in Req :
          (req[r].pc = "publish" \/ req[r].publish # "none")
          => /\ req[r].txn = NoTxn
             /\ req[r].order # None
             /\ Val(req[r].order) \in orders
             /\ ItemsOf(Val(req[r].order).id) = ItemRowsOf(Val(req[r].order))
    /\ \A i \in 1..Len(topic) :
          \E o \in orders :
              topic[i] = OrderCreatedEvent(topic[i].publisher, o)

\* C16 witness: a request that inserted its order is at its publish step
\* while another request has a transaction open.
C16_Witness ==
    \E r \in Req : \E q \in Req :
        /\ req[r].pc = "publish" /\ Inserted(r) /\ ItemsOf(r) # {}
        /\ req[q].txn # NoTxn


\* C17: every answered request has one of the five outcomes 201 created=true,
\* 200 created=false, 400, 401 or 500, and no other status.
C17_FiveOutcomes ==
    \A r \in Req :
        Done(r) =>
            \/ req[r].resp.status = 201 /\ req[r].resp.created = Some(TRUE)
            \/ req[r].resp.status = 200 /\ req[r].resp.created = Some(FALSE)
            \/ req[r].resp.status \in {400, 401, 500} /\ req[r].resp.created = None


\* C18: in every state each stored Order has exactly the items of the payload
\* that created it and every stored OrderItem belongs to a stored Order; a
\* request answered with anything but 201 has added no Order and no OrderItem.
C18_AllOrNothing ==
    /\ \A o \in orders : ItemsOf(o.id) = ItemRowsOf(o)
    /\ \A it \in items : \E o \in orders : o.id = it.order
    /\ \A r \in Req : (Done(r) /\ req[r].resp.status # 201) => WroteNothing(r)

\* C18 witness: a request with a valid payload was answered 500 and left no
\* row, next to a stored order with its two items.
C18_Witness ==
    \E r \in Req :
        /\ Done(r) /\ Accepted(r) /\ req[r].resp.status = 500 /\ WroteNothing(r)
        /\ \E o \in orders : Cardinality(ItemsOf(o.id)) = 2


\* The idempotency_key of request b is absent or is the key of no order
\* stored by another request.
KeyMatchesNone(b) ==
    \/ Data(b).idempotency_key = None
    \/ \A o \in orders : o.id # b => o.idempotency_key # Validated(b).idempotency_key

\* C19: a request that arrives after another request stored an Order under
\* the same order_id, and whose idempotency_key is absent or matches no stored
\* Order, is answered 200 created=false with the order_id of that Order, adds
\* no row and publishes no event.
C19_DuplicateOrderIdIs200 ==
    \A a \in Req : \A b \in Req :
        (/\ a \in req[b].seen /\ Done(b)
         /\ Accepted(a) /\ Accepted(b) /\ Inserted(a)
         /\ Data(a).order_id = Data(b).order_id
         /\ KeyMatchesNone(b))
        => /\ req[b].resp = Respond(200, Some(FALSE), Some(Validated(a).external_ref))
           /\ WroteNothing(b)
           /\ req[b].publish = "none"


\* The body of message m is text that json.loads rejects.
InvalidJson(m) ==
    /\ decoded[subscription[m].data].text.ok
    /\ ~decoded[subscription[m].data].json.ok

\* C20: a message whose body is not valid JSON is never nacked, causes no
\* egress call, and once its callback has run it is acked, having been
\* delivered once only.
C20_InvalidJsonAcked ==
    \A m \in Msg :
        InvalidJson(m)
        => /\ relay.callback[m].nacks = 0
           /\ relay.callback[m].posts = 0
           /\ subscription[m].deliveries <= 1
           /\ relay.callback[m].pc \in {"idle", "loads"}
           /\ (subscription[m].deliveries = 1 /\ relay.callback[m].pc = "idle")
                 => (subscription[m].status = "acked" /\ relay.callback[m].acks = 1)

\* C20 witness: a truncated event was acked after one delivery while another
\* message was nacked and delivered again.
C20_Witness ==
    \E m \in Msg : \E n \in Msg :
        /\ InvalidJson(m) /\ subscription[m].data # <<>>
        /\ subscription[m].status = "acked" /\ subscription[m].deliveries = 1
        /\ relay.callback[n].nacks >= 1 /\ subscription[n].deliveries = 2

\* The body of message m parses to a JSON object.
WellFormed(m) ==
    /\ decoded[subscription[m].data].text.ok
    /\ decoded[subscription[m].data].json.ok
    /\ decoded[subscription[m].data].json.val.t = "dict"

\* The callback has returned from a delivery of message m.
Handled(m) == subscription[m].deliveries >= 1 /\ relay.callback[m].pc = "idle"

\* send_order_created_webhook was called in this delivery and returned True.
SentOk(m) == relay.callback[m].posts >= 1 /\ relay.callback[m].success

\* C21: in each delivery of a well-formed message the callback never issues
\* both ack and nack nor either twice, has issued exactly one of them when it
\* returns, and that one is ack exactly if send_order_created_webhook
\* returned True.
C21_OneVerdictPerDelivery ==
    \A m \in Msg :
        WellFormed(m)
        => /\ relay.callback[m].acks + relay.callback[m].nacks <= 1
           /\ relay.callback[m].acks = 1 => SentOk(m)
           /\ Handled(m) => /\ relay.callback[m].acks + relay.callback[m].nacks = 1
                            /\ SentOk(m) => relay.callback[m].acks = 1

\* Message m is acknowledged, in a delivery whose egress call succeeded.
AckedAfterSuccess(m) == subscription[m].status = "acked" /\ SentOk(m)

\* Message m was nacked in its last delivery and no callback holds it.
NackedLast(m) == Handled(m) /\ relay.callback[m].nacks >= 1

\* C22: a well-formed message is acked only in a delivery whose egress call
\* succeeded, and after a nack it stays in the subscription, pending
\* delivery; with a fair broker and an endpoint that comes up, every
\* well-formed message is eventually acked after a successful egress call.
C22_AtLeastOnce ==
    /\ [](\A m \in Msg :
            WellFormed(m)
            => /\ subscription[m].status = "acked" => SentOk(m)
               /\ NackedLast(m) => subscription[m].status = "pending")
    /\ <>(\A m \in Msg : WellFormed(m) => AckedAfterSuccess(m))

\* C22 witness: a well-formed message acked in its second delivery, after a
\* first one whose egress call failed.
C22_Witness ==
    \E m \in Msg :
        /\ WellFormed(m) /\ AckedAfterSuccess(m)
        /\ subscription[m].deliveries = 2

\* --max-messages absent or 0: the test of line 91 is never true.
Unbounded == relay.max_messages = None \/ Val(relay.max_messages) = 0

\* C23: in unbounded mode, whatever the callbacks met (a body that is no
\* JSON, a failed egress call, a statement that raised), the relay is still
\* blocked in result() with its pull open, and every message pending in the
\* subscription can be delivered to it.
C23_UnboundedKeepsConsuming ==
    Unbounded
    => /\ relay.phase = "running"
       /\ relay.pull = "open"
       /\ relay.exit_code = None
       /\ \A m \in Msg :
             (/\ subscription[m].status = "pending"
              /\ subscription[m].deliveries < MaxDeliveries
              /\ relay.callback[m].pc = "idle")
             => ENABLED Deliver(m)

\* C23 witness: in unbounded mode one message was dropped as invalid JSON,
\* another failed its first delivery and raised in its second, and the pull
\* is still open.
C23_Witness ==
    /\ Unbounded
    /\ relay.pull = "open"
    /\ \E m \in Msg : \E n \in Msg :
          /\ InvalidJson(m) /\ Handled(m)
          /\ WellFormed(n) /\ Handled(n) /\ relay.callback[n].raised
          /\ subscription[n].deliveries = 2

\* The relay ended on a failure of subscribe() or of the streaming pull.
BrokerFailure == relay.stopped_by \in {"subscribe", "pull"}

\* C24: after a failure of subscribe() or of the streaming pull the process
\* has exited, no pull is left open (the one that was started is cancelled),
\* and no message is delivered to the relay any more.
C24_BrokerFailureIsFatal ==
    BrokerFailure
    => /\ relay.phase = "exited"
       /\ relay.exit_code # None
       /\ relay.pull = (IF relay.stopped_by = "pull" THEN "cancelled" ELSE "none")
       /\ \A m \in Msg : ~ENABLED Deliver(m)

\* C24 witness: the streaming pull failed after one message was handled and
\* while another was still waiting in the subscription.
C24_Witness ==
    /\ relay.stopped_by = "pull"
    /\ relay.pull = "cancelled"
    /\ \E m \in Msg : \E n \in Msg :
          /\ Handled(m)
          /\ subscription[n].status = "pending" /\ subscription[n].deliveries = 0

\* The process ended in _signal_handler.
StoppedBySignal == relay.stopped_by = "signal"

\* C25: once SIGINT or SIGTERM has ended the process no streaming pull is
\* left open, and every message is either acked by its own callback or still
\* in the subscription, pending or leased, to be delivered again.
C25_SignalCancelsPull ==
    StoppedBySignal
    => /\ relay.pull # "open"
       /\ \A m \in Msg :
             IF subscription[m].status = "acked" THEN relay.callback[m].acks = 1
             ELSE subscription[m].status \in {"pending", "delivered"}

\* --max-messages N with N >= 1.
Bounded == relay.max_messages # None /\ Val(relay.max_messages) >= 1

\* The messages acknowledged after a successful egress call.
Relayed == {m \in Msg : subscription[m].status = "acked" /\ SentOk(m)}

\* No callback is between its ack or nack and the return from callback().
NoneSettling == \A m \in Msg : relay.callback[m].pc \notin {"report", "store", "check"}

\* C26: with --max-messages N >= 1 the pull is cancelled only when N
\* messages have been acked after a successful egress call, and it is
\* cancelled by the time the callbacks that acked them have returned.
C26_StopsAfterN ==
    Bounded
    => /\ relay.pull = "cancelled" => Cardinality(Relayed) >= Val(relay.max_messages)
       /\ (NoneSettling /\ Cardinality(Relayed) >= Val(relay.max_messages))
             => relay.pull = "cancelled"

\* The callback of message m is past the call of send_order_created_webhook.
PastSend(m) == relay.callback[m].pc \in {"settle", "report", "store", "check"}

\* The callback of message m left the try before the call, through
\* except Exception, and nacked.
RaisedBeforeSend(m) ==
    /\ relay.callback[m].posts = 0
    /\ relay.callback[m].raised
    /\ relay.callback[m].acks = 0
    /\ relay.callback[m].nacks = 1

\* C27 as stated: every delivery of a well-formed message that the callback
\* has handled made exactly one POST.
C27_ExactlyOnePost ==
    \A m \in Msg : WellFormed(m) /\ Handled(m) => relay.callback[m].posts = 1

\* C27: a delivery of a well-formed message makes at most one POST, and
\* exactly one unless the callback raised before the call and nacked;
\* send_order_created_webhook returns True exactly for a 2xx response; a
\* further POST for the message takes a further delivery.
C27_AtMostOnePost ==
    \A m \in Msg :
        WellFormed(m)
        => /\ relay.callback[m].posts <= 1
           /\ PastSend(m) => relay.callback[m].posts = 1
           /\ Handled(m) => relay.callback[m].posts = 1 \/ RaisedBeforeSend(m)
           /\ relay.callback[m].posts = 1
                 => /\ relay.callback[m].outcome \in EgressOutcomes
                    /\ relay.callback[m].success <=> relay.callback[m].outcome = "2xx"
           /\ relay.callback[m].posts = 0 => relay.callback[m].outcome = ""

\* C27 witness: one message was nacked without a POST because the callback
\* raised before the call; another made one POST in each of two deliveries,
\* the second ending in a transport error.
C27_Witness ==
    \E m \in Msg : \E n \in Msg :
        /\ WellFormed(m) /\ Handled(m) /\ RaisedBeforeSend(m)
        /\ WellFormed(n) /\ Handled(n) /\ subscription[n].deliveries = 2
        /\ relay.callback[n].posts = 1
        /\ relay.callback[n].outcome = "transport error"

\* Caller c's call of function f has ended.
Finished(c, f) == pubsub.call[c].pc = "done" /\ pubsub.call[c].op = f

\* C28: the broker never holds more than one topic or subscription of the
\* name; a call of ensure_topic_exists or setup_pubsub raises only when the
\* broker failed a request with an error other than AlreadyExists; otherwise
\* ensure_topic_exists returns the topic path with the topic in place, and
\* setup_pubsub ends with the topic and the subscription in place.
C28_ProvisioningIdempotent ==
    /\ pubsub.topics <= 1
    /\ pubsub.subscriptions <= 1
    /\ \A c \in Caller :
          /\ (Finished(c, "ensure_topic_exists") \/ Finished(c, "setup_pubsub"))
                => (pubsub.call[c].raised <=> pubsub.call[c].fault)
          /\ (Finished(c, "ensure_topic_exists") /\ ~pubsub.call[c].raised)
                => (pubsub.call[c].ret = Some(TopicPath) /\ pubsub.topics = 1)
          /\ (Finished(c, "setup_pubsub") /\ ~pubsub.call[c].raised)
                => (pubsub.topics = 1 /\ pubsub.subscriptions = 1)

\* C28 witness: after three calls, one caller has ended setup_pubsub and
\* another ensure_topic_exists, neither raising, and there is one topic.
C28_Witness ==
    \E c \in Caller : \E d \in Caller :
        /\ c # d
        /\ Finished(c, "setup_pubsub") /\ ~pubsub.call[c].raised /\ pubsub.calls = 3
        /\ Finished(d, "ensure_topic_exists") /\ pubsub.call[d].ret = Some(TopicPath)
        /\ pubsub.topics = 1

\* C29: a call of publish_order_created that has ended either returned the
\* id of a stored message or raised, never both; it raised when the broker
\* did not acknowledge in time; when topic provisioning failed it raised
\* without handing a message to the publisher; and every call that has
\* begun ends.
C29_PublishTerminates ==
    /\ [](\A c \in Caller :
            Finished(c, "publish_order_created")
            => /\ pubsub.call[c].raised <=> pubsub.call[c].ret = None
               /\ pubsub.call[c].ret # None
                     => (pubsub.call[c].fate = "acked" /\ Val(pubsub.call[c].ret) = pubsub.call[c].id
                         /\ pubsub.call[c].id \in 1..pubsub.messages)
               /\ pubsub.call[c].fate \in {"late", "lost", "failed"} => pubsub.call[c].raised
               /\ ~pubsub.call[c].published
                     => (pubsub.call[c].raised /\ pubsub.call[c].fault))
    /\ \A c \in Caller :
          [](pubsub.call[c].op = "publish_order_created" => <>(pubsub.call[c].pc = "done"))

\* C29 witness: one call of publish_order_created raised after a broker
\* that never acknowledged, another raised on a provisioning error without
\* publishing.
C29_Witness ==
    \E c \in Caller : \E d \in Caller :
        /\ Finished(c, "publish_order_created") /\ pubsub.call[c].fate = "lost"
        /\ pubsub.call[c].raised
        /\ Finished(d, "publish_order_created") /\ ~pubsub.call[d].published
        /\ pubsub.call[d].raised

\* The validated idempotency_key of request r is that of stored order a and
\* its validated order_id that of stored order b.
Disagree(r, a, b) ==
    /\ Accepted(r)
    /\ Validated(r).idempotency_key # None
    /\ Validated(r).idempotency_key = a.idempotency_key
    /\ Validated(r).external_ref = b.external_ref
    /\ a # b

\* C30: a request whose idempotency_key is that of one stored order and
\* whose order_id is that of another is answered 409.
C30_DisagreementIs409 ==
    \A r \in Req :
        (Done(r) /\ Disagree(r, StoredA, StoredB)) => req[r].resp.status = 409


\* OrderItem.line_total of a stored row, and the sum of it over a set of rows.
line_total(it) == it.quantity * it.unit_price
RECURSIVE SumLineTotals(_)
SumLineTotals(rows) ==
    IF rows = {} THEN 0
    ELSE LET it == CHOOSE x \in rows : TRUE
         IN  line_total(it) + SumLineTotals(rows \ {it})

\* C31: every stored Order has a total equal to the sum over its OrderItems
\* of quantity times unit_price.
C31_TotalIsSumOfLines ==
    \A o \in orders : o.total = SumLineTotals(ItemsOf(o.id))


\* A stored order other than r's own has r's order id or idempotency key, and
\* differs from what r's payload would store in customer, address or total.
DuplicateWithOtherData(r) ==
    \E o \in orders :
        /\ o.id # r
        /\ \/ o.external_ref = Validated(r).external_ref
           \/ Truthy(o.idempotency_key) /\ o.idempotency_key = Validated(r).idempotency_key
        /\ o.customer_name # Val(Validated(r).customer.name)
        /\ o.shipping_address # Validated(r).shipping_address
        /\ o.total # Validated(r).total
        /\ Cardinality(ItemsOf(o.id)) # Len(Validated(r).items)

\* C32: no step of any request changes or removes a stored Order or any of
\* its OrderItems, and none adds an OrderItem to a stored Order: a duplicate
\* request carrying other data leaves the rows exactly as they were.
C32_NeverUpdated ==
    [][\A o \in orders :
          /\ o \in orders'
          /\ \A p \in orders' : p.id = o.id => p = o
          /\ {it \in items' : it.order = o.id} = ItemsOf(o.id)]_vars

\* C32 witness: duplicates with other data, one matched by the key and one by
\* the order id of a stored order, were answered, and the two orders stored at
\* the start are still there with their items.
C32_Witness ==
    /\ \E r \in Req :
          /\ Done(r) /\ Accepted(r) /\ DuplicateWithOtherData(r)
          /\ Validated(r).idempotency_key = StoredA.idempotency_key
    /\ \E r \in Req :
          /\ Done(r) /\ Accepted(r) /\ DuplicateWithOtherData(r)
          /\ Validated(r).idempotency_key = None
          /\ req[r].resp.status = 200
    /\ {StoredA, StoredB} \subseteq orders
    /\ StoredItems \subseteq items


\* The body of message m is not UTF-8, or it is JSON text of a value that is
\* not an object.
Unparseable(m) ==
    \/ ~decoded[subscription[m].data].text.ok
    \/ /\ decoded[subscription[m].data].text.ok
       /\ decoded[subscription[m].data].json.ok
       /\ decoded[subscription[m].data].json.val.t # "dict"

\* C33: a message whose body is not valid UTF-8, or is valid JSON but not an
\* object, is never nacked and causes no egress call, and once its callback
\* has run it is acked, having been delivered once only.
C33_UnparseableAcked ==
    \A m \in Msg :
        Unparseable(m)
        => /\ relay.callback[m].nacks = 0
           /\ relay.callback[m].posts = 0
           /\ subscription[m].deliveries <= 1
           /\ (subscription[m].deliveries = 1 /\ relay.callback[m].pc = "idle")
                 => (subscription[m].status = "acked" /\ relay.callback[m].acks = 1)


\* An order stored before the run has the order id or the idempotency key of
\* r's payload.
MatchesStored(r) ==
    \E o \in {StoredA, StoredB} :
        \/ Some(o.external_ref) = Data(r).order_id
        \/ Truthy(o.idempotency_key) /\ o.idempotency_key = Data(r).idempotency_key

\* C34: the first failing step decides.  With a secret configured, a request
\* without a valid signature is answered 401 before its payload is looked at,
\* an invalid payload included; a correctly signed request whose payload has
\* no items is answered 400 and writes nothing, also when its key or order id
\* is that of a stored Order; only other requests are answered 200, 201 or 409.
C34_FirstFailureDecides ==
    \A r \in Req :
        Done(r) =>
            /\ NoValidSignature(r)
                  => /\ req[r].resp = Respond(401, None, None)
                     /\ req[r].validated = None /\ req[r].errors = {}
                     /\ WroteNothing(r) /\ req[r].publish = "none"
            /\ (HasValidSignature(r) /\ BadItems(Data(r)))
                  => /\ req[r].resp = Respond(400, None, None)
                     /\ "items" \in req[r].errors
                     /\ WroteNothing(r) /\ req[r].publish = "none"
            /\ req[r].resp.status \in {200, 201, 409}
                  => (HasValidSignature(r) /\ ~BadItems(Data(r)))

\* C34 witness: a wrongly signed request without items was answered 401, and
\* a correctly signed request without items that carries the key of a stored
\* Order was answered 400.
C34_Witness ==
    /\ \E r \in Req :
          /\ Done(r) /\ NoValidSignature(r) /\ BadItems(Data(r)) /\ MatchesStored(r)
          /\ req[r].headers = WronglySigned
          /\ req[r].resp.status = 401
    /\ \E r \in Req :
          /\ Done(r) /\ HasValidSignature(r) /\ BadItems(Data(r)) /\ MatchesStored(r)
          /\ Data(r).idempotency_key = Some(KeyK)
          /\ req[r].resp.status = 400


\* C35: of two accepted requests whose idempotency_key is the empty string and
\* whose order ids differ and are carried by no other request, each is
\* answered 201 created=true and each has its own Order stored.
C35_EmptyKeyIsNoKey ==
    \A a \in Req : \A b \in Req :
        (/\ a # b /\ Done(a) /\ Done(b)
         /\ Accepted(a) /\ Accepted(b)
         /\ Data(a).idempotency_key = Some(KeyEmpty)
         /\ Data(b).idempotency_key = Some(KeyEmpty)
         /\ Validated(a).external_ref # Validated(b).external_ref
         /\ \A q \in Req \ {a, b} :
               Accepted(q) => Validated(q).external_ref
                                 \notin {Validated(a).external_ref, Validated(b).external_ref})
        => \A q \in {a, b} :
              /\ req[q].resp = Respond(201, Some(TRUE), Some(Validated(q).external_ref))
              /\ \E o \in orders : o.id = q /\ o.external_ref = Validated(q).external_ref


\* The events on the topic that announce order o.
EventsOf(o) == {i \in 1..Len(topic) : topic[i].order_id = o.external_ref}

\* C36: when the request that inserted an Order has ended with its publish
\* attempt failed, the Order is stored, no other request publishes it, and the
\* topic holds no event for it.
C36_PublishOnlyInCreatingRequest ==
    \A c \in Req :
        (Done(c) /\ req[c].publish = "failed" /\ req[c].order = Some(OrderRow(c, Validated(c))))
        => /\ OrderRow(c, Validated(c)) \in orders
           /\ \A q \in Req \ {c} :
                 req[q].order = req[c].order => req[q].publish = "none"
           /\ EventsOf(OrderRow(c, Validated(c))) = {}


\* C37: with max_messages = N the number of messages acked after a
\* successful egress call never exceeds N, however the callbacks interleave.
C37_AtMostNAcked ==
    Bounded => Cardinality(Relayed) <= Val(relay.max_messages)


\* C38: with no secret configured (None or the empty string) no request is
\* answered 401: whatever its two signature headers hold, a request is
\* answered by what its payload alone decides.
C38_NoSecretNoCheck ==
    ~Truthy(WEBHOOK_SECRET)
    => \A r \in Req :
          /\ req[r].resp.status # 401
          /\ Done(r) => req[r].resp.status = (IF BadItems(Data(r)) THEN 400 ELSE 201)

\* C38 witness: with the secret set to the empty string, a request whose
\* X-Webhook-Signature is wrong and whose X-Shopify-Hmac-SHA256 is empty was
\* answered 201.
C38_Witness ==
    /\ WEBHOOK_SECRET = Some(<<>>)
    /\ \E r \in Req :
          /\ Done(r)
          /\ req[r].headers = [signature |-> Some(WrongSignature),
                               shopify_signature |-> Some(<<>>)]
          /\ req[r].resp.status = 201


\* The relay ended because setup_pubsub raised.
ProvisioningFailure == relay.stopped_by = "setup"

\* C39: after a failure of setup_pubsub the process has exited with status 1,
\* no signal handler was installed, no pull was started and no future stored,
\* no message was delivered, acked or nacked, and none can be delivered.
C39_ProvisioningFailureExits ==
    ProvisioningFailure
    => /\ relay.phase = "exited"
       /\ relay.exit_code = Some(1)
       /\ ~relay.handlers
       /\ relay.pull = "none" /\ ~relay.future
       /\ \A m \in Msg :
             /\ subscription[m].status = "pending" /\ subscription[m].deliveries = 0
             /\ relay.callback[m] = IdleCallback
             /\ ~ENABLED Deliver(m)
       /\ ~ENABLED Signal

\* C39 witness: setup_pubsub failed while messages were waiting in the
\* subscription, and the process is gone.
C39_Witness ==
    /\ ProvisioningFailure
    /\ relay.phase = "exited"
    /\ \A m \in Msg : subscription[m].status = "pending" /\ subscription[m].data # <<>>

=============================================================================
